---- MODULE Spec2Model ----
(***************************************************************************)
(* A model of devaloi/shrink: the token-bucket rate limiter, the           *)
(* middleware chain and the request pipeline of cmd/server.                *)
(*                                                                         *)
(* Arithmetic.  The limiter's tokens are float64 in the code.  Here they   *)
(* are exact fractions: a bucket's tokens are counted in units of          *)
(* 1/TokenScale token, the clock counts ticks, and rate is the number of   *)
(* units refilled per tick.  "tokens < 1" is therefore tokens < TokenScale *)
(* and float64(burst) is burst * TokenScale.  Rounding of float64 is not   *)
(* modelled.  time.Now() carries Go's monotonic reading, so the clock      *)
(* never goes back.                                                        *)
(***************************************************************************)
EXTENDS Integers, Sequences, FiniteSets, Bags, TLC

\* ---------------------------------------------------------------- bounds
TokenScale == 2
MaxRate == 2
MaxBurst == 2
MaxClock == 3
MaxLog == 5
MaxStages == 2
MaxCalls == 2
MaxSmall == 20

\* Goroutines that call into the limiter, and the client identities they use.
Procs == {"p1", "p2"}
IPs == {"a", "b"}

Min(x, y) == IF x < y THEN x ELSE y

VARIABLES
    rate,       \* RateLimiter.rate, in units per tick
    burst,      \* RateLimiter.burst, in whole tokens
    buckets,    \* RateLimiter.buckets: identity -> bucket (exists = FALSE: no entry)
    mu,         \* RateLimiter.mu: "" when unlocked, else the goroutine holding it
    clock,      \* what time.Now() returns
    pc,         \* each goroutine's position
    ip,         \* Allow's parameter ip
    now,        \* Allow's local now
    bsnap,      \* Allow's locals b, exists: the map entry found by the lookup
    ret,        \* Allow's return value
    watched,    \* history: the identity whose calls are logged, "" when none is
    log,        \* history: the watched identity's completed calls, in unlock order
    avail,      \* history: the tokens a call found available (after refill and cap)
    created,    \* history: how many times a bucket was stored for each identity
    mws,        \* run: the middlewares handed to Chain
    handler,    \* http.Server.Handler: the composed chain, <<>> before run built it
    cors,       \* the CORSConfig handed to CORS
    counter,    \* config.go: var counter int64
    depth,      \* each request's innermost active stage (an index of handler)
    req,        \* each request's *http.Request: method and headers
    ctx,        \* each request's context values for requestIDKey, innermost last
    w,          \* each request's http.ResponseWriter, the logging wrappers around it
                \* and (history) the calls made on it
    logged,     \* the lines log.Printf printed for each request
    decision,   \* history: what Allow answered for each request
    trace,      \* history: the stages each request entered and left, in order
    env,        \* the environment variables config.Load reads
    cfg,        \* what config.Load returned to run(): *Config or an error
    run,        \* how far run() has come
    urls,       \* the rows of table urls, in the order of their ids
    job,        \* each goroutine's call into the handlers, the service or the repository
    bg,         \* the goroutines Resolve started that have not yet run, by their code
    done        \* history: the calls that returned, with what they returned

limiterVars == <<rate, burst, buckets, mu, clock>>
callVars == <<pc, ip, now, bsnap, ret>>
histVars == <<watched, log, avail, created>>
pipeVars == <<mws, handler, cors, counter, depth, req, ctx, w, logged, decision, trace>>
appVars == <<env, cfg, run, urls, job, bg, done>>
vars == <<limiterVars, callVars, histVars, pipeVars, appVars>>

\* The keys of rl.buckets: the identities of the callers and the empty string,
\* which getClientIP returns for a request that names no client.
Keys == IPs \cup {""}

\* bucket{}: the zero value stands for "no entry in the map".
NoBucket == [exists |-> FALSE, tokens |-> 0, lastRefill |-> 0]

\* NewRateLimiter(rate, burst): an empty map, an unlocked mutex.
NewRateLimiter ==
    /\ buckets = [i \in Keys |-> NoBucket]
    /\ mu = ""

\* ---------------------------------------------------------- text helpers
\* Texts the code takes apart (header values, addresses) are sequences of
\* one-character strings; Join gives the string they spell.
RECURSIVE Join(_)
Join(cs) == IF cs = <<>> THEN "" ELSE Head(cs) \o Join(Tail(cs))

\* strings.Join(elems, sep)
RECURSIVE JoinWith(_, _)
JoinWith(elems, sep) ==
    IF elems = <<>> THEN ""
    ELSE IF Len(elems) = 1 THEN elems[1]
    ELSE elems[1] \o sep \o JoinWith(Tail(elems), sep)

Digits == <<"0", "1", "2", "3", "4", "5", "6", "7", "8", "9">>

\* strconv.Itoa(n)
RECURSIVE Itoa(_)
Itoa(n) ==
    IF n < 0 THEN "-" \o Itoa(-n)
    ELSE IF n < 10 THEN Digits[n + 1]
    ELSE Itoa(n \div 10) \o Digits[(n % 10) + 1]

\* strings.TrimSpace(s)
RECURSIVE TrimLeft(_)
TrimLeft(cs) == IF cs # <<>> /\ Head(cs) = " " THEN TrimLeft(Tail(cs)) ELSE cs

RECURSIVE TrimRight(_)
TrimRight(cs) ==
    IF cs # <<>> /\ cs[Len(cs)] = " " THEN TrimRight(SubSeq(cs, 1, Len(cs) - 1)) ELSE cs

TrimSpace(cs) == TrimRight(TrimLeft(cs))

\* strings.Split(s, ",")[0]: the text before the first comma.
RECURSIVE FirstPart(_)
FirstPart(cs) ==
    IF cs = <<>> \/ Head(cs) = "," THEN <<>> ELSE <<Head(cs)>> \o FirstPart(Tail(cs))

\* -------------------------------------------------------- base62 encoding
alphabet ==
    <<"a", "b", "c", "d", "e", "f", "g", "h", "i", "j", "k", "l", "m",
      "n", "o", "p", "q", "r", "s", "t", "u", "v", "w", "x", "y", "z",
      "A", "B", "C", "D", "E", "F", "G", "H", "I", "J", "K", "L", "M",
      "N", "O", "P", "Q", "R", "S", "T", "U", "V", "W", "X", "Y", "Z",
      "0", "1", "2", "3", "4", "5", "6", "7", "8", "9">>

base == Len(alphabet)

\* The loop of Encode: the digits of id, least significant first.
RECURSIVE EncodeDigits(_)
EncodeDigits(id) ==
    IF id > 0 THEN <<alphabet[(id % base) + 1]>> \o EncodeDigits(id \div base) ELSE <<>>

RECURSIVE Reverse(_)
Reverse(cs) == IF cs = <<>> THEN <<>> ELSE Reverse(Tail(cs)) \o <<Head(cs)>>

\* encoding.Encode(id)
EncodeText(id) ==
    IF id < 0 THEN <<>>
    ELSE IF id = 0 THEN <<alphabet[1]>>
    ELSE Reverse(EncodeDigits(id))

Encode(id) == Join(EncodeText(id))

\* strings.IndexRune(alphabet, char): the position counted from 0, -1 when absent.
IndexRune(char) ==
    IF \E i \in 1..base : alphabet[i] = char
      THEN (CHOOSE i \in 1..base : alphabet[i] = char) - 1
      ELSE -1

\* The loop of Decode over the characters that are left.
RECURSIVE DecodeLoop(_, _)
DecodeLoop(code, result) ==
    IF code = <<>> THEN [value |-> result, err |-> ""]
    ELSE IF IndexRune(Head(code)) = -1 THEN [value |-> 0, err |-> "ErrInvalidInput"]
    ELSE DecodeLoop(Tail(code), result * base + IndexRune(Head(code)))

\* encoding.Decode(code)
DecodeIgnoresInvalid(code) == DecodeLoop(SelectSeq(code, LAMBDA c : IndexRune(c) # -1), 0)
Decode(code) ==
    IF code = <<>> THEN [value |-> 0, err |-> "ErrInvalidInput"]
    ELSE DecodeLoop(code, 0)

\* ------------------------------------------------------------- strings
Letters == {alphabet[i] : i \in 1..52}
DigitChars == {Digits[i] : i \in 1..10}
HexChars == DigitChars \cup {"a", "b", "c", "d", "e", "f", "A", "B", "C", "D", "E", "F"}

\* Bytes below 0x20, and bytes of 0x80 and above: the latter are written by
\* their value and mapped to the two digits strconv.AppendInt(b, c, 16) gives.
CTLBytes == {"\n", "\t", "\r"}
NonASCII == ("0xC3" :> "c3") @@ ("0xA9" :> "a9")

\* strings.Index(s, c) and strings.LastIndex(s, c), counted from 1; 0 when absent.
IndexOf(cs, c) ==
    IF \E k \in 1..Len(cs) : cs[k] = c
      THEN CHOOSE k \in 1..Len(cs) : cs[k] = c /\ \A m \in 1..(k - 1) : cs[m] # c
      ELSE 0
LastIndexOf(cs, c) ==
    IF \E k \in 1..Len(cs) : cs[k] = c
      THEN CHOOSE k \in 1..Len(cs) : cs[k] = c /\ \A m \in (k + 1)..Len(cs) : cs[m] # c
      ELSE 0

HasPrefix(cs, prefix) == Len(cs) >= Len(prefix) /\ SubSeq(cs, 1, Len(prefix)) = prefix
Count(cs, c) == Cardinality({k \in 1..Len(cs) : cs[k] = c})

\* strings.Cut(s, sep)
Cut(cs, sep) ==
    IF IndexOf(cs, sep) = 0 THEN [before |-> cs, after |-> <<>>, found |-> FALSE]
    ELSE [before |-> SubSeq(cs, 1, IndexOf(cs, sep) - 1),
          after |-> SubSeq(cs, IndexOf(cs, sep) + 1, Len(cs)), found |-> TRUE]

\* strings.ToLower(s)
ToLower(cs) ==
    [k \in 1..Len(cs) |->
        IF \E i \in 27..52 : alphabet[i] = cs[k]
          THEN alphabet[(CHOOSE i \in 27..52 : alphabet[i] = cs[k]) - 26]
          ELSE cs[k]]

\* ------------------------------------------------------------- strconv
\* The value of a string of decimal digits.
RECURSIVE DigitsValue(_)
DigitsValue(cs) ==
    IF cs = <<>> THEN 0
    ELSE 10 * DigitsValue(SubSeq(cs, 1, Len(cs) - 1)) + IndexOf(Digits, cs[Len(cs)]) - 1

AllDigits(cs) == \A k \in 1..Len(cs) : cs[k] \in DigitChars

RECURSIVE Pow10(_)
Pow10(k) == IF k = 0 THEN 1 ELSE 10 * Pow10(k - 1)

\* strconv.Atoi(s): an optional sign and at least one decimal digit (texts short
\* enough for the value to fit the int).
Atoi(cs) ==
    LET signed == cs # <<>> /\ cs[1] \in {"+", "-"}
        ds == IF signed THEN Tail(cs) ELSE cs
    IN IF ds = <<>> \/ ~AllDigits(ds) THEN [value |-> 0, err |-> TRUE]
       ELSE [value |-> IF signed /\ cs[1] = "-" THEN 0 - DigitsValue(ds) ELSE DigitsValue(ds),
             err |-> FALSE]

\* strconv.ParseFloat(s, 64) for decimal texts without exponent: an optional
\* sign, digits, optionally a point and digits, with a digit somewhere.  The value
\* is num / den.  (Exponents, hexadecimal floats, "inf" and "nan" are outside the
\* texts tried.)
ParseFloat(cs) ==
    LET signed == cs # <<>> /\ cs[1] \in {"+", "-"}
        ds == IF signed THEN Tail(cs) ELSE cs
        parts == Cut(ds, ".")
        mantissa == parts.before \o parts.after
    IN IF mantissa = <<>> \/ ~AllDigits(mantissa) THEN [num |-> 0, den |-> 1, err |-> TRUE]
       ELSE [num |-> IF signed /\ cs[1] = "-" THEN 0 - DigitsValue(mantissa)
                     ELSE DigitsValue(mantissa),
             den |-> Pow10(Len(parts.after)), err |-> FALSE]

\* ------------------------------------------------------------- net/url
\* getScheme(rawURL) from position i on.
RECURSIVE getSchemeAt(_, _)
getSchemeAt(rawURL, i) ==
    IF i > Len(rawURL) THEN [scheme |-> <<>>, path |-> rawURL, err |-> FALSE]
    ELSE IF rawURL[i] \in Letters THEN getSchemeAt(rawURL, i + 1)
    ELSE IF rawURL[i] \in DigitChars \cup {"+", "-", "."}
      THEN IF i = 1 THEN [scheme |-> <<>>, path |-> rawURL, err |-> FALSE]
           ELSE getSchemeAt(rawURL, i + 1)
    ELSE IF rawURL[i] = ":"
      THEN IF i = 1 THEN [scheme |-> <<>>, path |-> <<>>, err |-> TRUE]
           ELSE [scheme |-> SubSeq(rawURL, 1, i - 1),
                 path |-> SubSeq(rawURL, i + 1, Len(rawURL)), err |-> FALSE]
    ELSE [scheme |-> <<>>, path |-> rawURL, err |-> FALSE]

getScheme(rawURL) == getSchemeAt(rawURL, 1)

\* unescape(s, mode) fails on a "%" that two hexadecimal digits do not follow.
BadEscape(cs) ==
    \E i \in 1..Len(cs) :
        cs[i] = "%" /\ ~(i + 2 <= Len(cs) /\ cs[i + 1] \in HexChars /\ cs[i + 2] \in HexChars)

\* The bytes shouldEscape(c, encodeHost) lets stand in a host.
HostChars ==
    Letters \cup DigitChars \cup DOMAIN NonASCII \cup
    {"-", "_", ".", "~", "!", "$", "&", "'", "(", ")", "*", "+", ",", ";", "=", ":",
     "[", "]", "<", ">", "\""}

\* unescape(host, encodeHost) fails: a bad escape, an escape of a byte below 0x80
\* other than "%25", or a byte that must be escaped.
BadHost(host) ==
    \/ BadEscape(host)
    \/ \E i \in 1..Len(host) :
          /\ host[i] = "%"
          /\ host[i + 1] \in {"0", "1", "2", "3", "4", "5", "6", "7"}
          /\ SubSeq(host, i, i + 2) # <<"%", "2", "5">>
    \/ \E i \in 1..Len(host) : host[i] \notin HostChars \cup {"%"}

\* validOptionalPort(port)
validOptionalPort(port) ==
    port = <<>> \/ (port[1] = ":" /\ AllDigits(Tail(port)))

\* parseHost(host) fails.  (Hosts in brackets are outside the texts tried.)
parseHostFails(host) ==
    \/ /\ LastIndexOf(host, ":") # 0
       /\ ~validOptionalPort(SubSeq(host, LastIndexOf(host, ":"), Len(host)))
    \/ BadHost(host)

\* url.Parse(rawURL): whether it fails and, if not, the Scheme and the Host of
\* the URL (the host as written, which is empty exactly when URL.Host is).
\* (Userinfo is outside the texts tried.)
Parse(rawURL) ==
    LET frag == Cut(rawURL, "#")
        u == frag.before
        s == getScheme(u)
        Scheme == ToLower(s.scheme)
        rest == IF s.path # <<>> /\ s.path[Len(s.path)] = "?" /\ Count(s.path, "?") = 1
                  THEN SubSeq(s.path, 1, Len(s.path) - 1)
                  ELSE Cut(s.path, "?").before
        hasAuthority == /\ Scheme # <<>> \/ ~HasPrefix(rest, <<"/", "/", "/">>)
                        /\ HasPrefix(rest, <<"/", "/">>)
        tail == SubSeq(rest, 3, Len(rest))
        authority == IF IndexOf(tail, "/") = 0 THEN tail
                     ELSE SubSeq(tail, 1, IndexOf(tail, "/") - 1)
        path == IF ~hasAuthority THEN rest
                ELSE IF IndexOf(tail, "/") = 0 THEN <<>>
                ELSE SubSeq(tail, IndexOf(tail, "/"), Len(tail))
        Fail == [err |-> TRUE, Scheme |-> <<>>, Host |-> <<>>]
    IN IF \E k \in 1..Len(u) : u[k] \in CTLBytes THEN Fail
       ELSE IF u = <<"*">> THEN [err |-> BadEscape(frag.after), Scheme |-> <<>>, Host |-> <<>>]
       ELSE IF s.err THEN Fail
       ELSE IF ~HasPrefix(rest, <<"/">>) /\ Scheme # <<>>
         THEN [err |-> BadEscape(frag.after), Scheme |-> Scheme, Host |-> <<>>]
       ELSE IF ~HasPrefix(rest, <<"/">>) /\ IndexOf(Cut(rest, "/").before, ":") # 0 THEN Fail
       ELSE IF hasAuthority /\ parseHostFails(authority) THEN Fail
       ELSE IF BadEscape(path) \/ BadEscape(frag.after) THEN Fail
       ELSE [err |-> FALSE, Scheme |-> Scheme,
             Host |-> IF hasAuthority THEN authority ELSE <<>>]

http == <<"h", "t", "t", "p">>
https == <<"h", "t", "t", "p", "s">>

\* URLService.validateURL(rawURL): "" for nil, else the error it returns.
validateURLNoHostCheck(rawURL) ==
    IF rawURL = <<>> THEN "ErrEmptyURL"
    ELSE IF Parse(rawURL).err THEN "ErrInvalidURL"
    ELSE IF ToLower(Parse(rawURL).Scheme) \notin {http, https} THEN "ErrMissingScheme"
    ELSE ""
validateURL(rawURL) ==
    IF rawURL = <<>> THEN "ErrEmptyURL"
    ELSE IF Parse(rawURL).err THEN "ErrInvalidURL"
    ELSE IF ToLower(Parse(rawURL).Scheme) \notin {http, https} THEN "ErrMissingScheme"
    ELSE IF Parse(rawURL).Host = <<>> THEN "ErrInvalidURL"
    ELSE ""

\* ------------------------------------------------------- pipeline: data
CORSMaxAge == 86400

\* DefaultCORSConfig()
DefaultCORSConfig ==
    [AllowedOrigins |-> <<"*">>,
     AllowedMethods |-> <<"GET", "POST", "OPTIONS">>,
     AllowedHeaders |-> <<"Content-Type", "X-Request-ID">>,
     MaxAge |-> CORSMaxAge]

\* Mutant of DeployedMiddlewares: the rate limiter is handed to Chain before CORS.
DeployedRateLimitBeforeCORS == <<"RequestID", "Logging", "Recovery", "RateLimit", "CORS">>

\* Mutant of DeployedMiddlewares: RequestID is handed to Chain last.
DeployedRequestIDLast == <<"Logging", "Recovery", "CORS", "RateLimit", "RequestID">>

\* Mutant of DeployedMiddlewares: Recovery is handed to Chain before Logging.
DeployedRecoveryFirst == <<"RequestID", "Recovery", "Logging", "CORS", "RateLimit">>

\* The stages run() hands to Chain, and the mux it wraps.
DeployedMiddlewares == <<"RequestID", "Logging", "Recovery", "CORS", "RateLimit">>
Terminal == <<"mux">>

\* The response headers this code sets.
HeaderNames ==
    {"X-Request-ID", "Content-Type", "Retry-After", "Location",
     "Access-Control-Allow-Origin", "Access-Control-Allow-Methods",
     "Access-Control-Allow-Headers", "Access-Control-Max-Age"}

\* No request is being served.
NoRequest == [method |-> "", origin |-> "", xrid |-> "", xff |-> <<>>, xri |-> "",
              remote |-> <<>>]

\* A fresh http.ResponseWriter: no status written, no header set (""), no body.
\* sent: the headers as they were when the status was written.  wraps: the
\* logging wrappers around it, outermost first.  calls: history.
NewResponse ==
    [status |-> 0,
     hdr |-> [h \in HeaderNames |-> ""],
     sent |-> [h \in HeaderNames |-> ""],
     body |-> <<>>,
     wraps |-> <<>>,
     calls |-> <<>>,
     real |-> <<>>]

\* No environment variable is set; Load has not returned anything.
NoEnv == [PORT |-> <<>>, RATE_LIMIT |-> <<>>, RATE_BURST |-> <<>>]
NoConfig == [err |-> "", Port |-> 0, RateLimit |-> [num |-> 0, den |-> 1], RateBurst |-> 0]

\* A goroutine that is in no call.  op: the function called; arg: its argument;
\* at: where the call is; id, row: locals; out, err: what it returns; dbops
\* (history): how many statements the call ran on the database.
\* domain.URL, without its creation time.
NoURL == [ID |-> 0, Code |-> "", Original |-> <<>>, Clicks |-> 0]

\* domain.GlobalStats, without the count of today's URLs.
NoStats == [TotalURLs |-> 0, TotalClicks |-> 0]

\* A goroutine's call: the handler it entered (h, with the request's method and
\* whether its body decodes), the service or repository function it is in (op),
\* the arguments (url, code), the position (at), the locals (id) and the results.
NoJob == [h |-> "", method |-> "", json |-> TRUE, op |-> "", url |-> <<>>, code |-> "",
          at |-> "", id |-> 0, out |-> NoURL, resp |-> [ShortURL |-> "", Code |-> ""],
          stats |-> NoStats, err |-> "", dbops |-> 0]

\* The state after NewRateLimiter(rate, burst), rate > 0 and burst >= 1 as
\* config.Load admits them, and before run() composed the chain.  W: the
\* identities that may be the logged one; M: the lists that may be handed to Chain.
InitAll(W, M, U, R, B) ==
    /\ watched \in W
    /\ mws \in M
    /\ handler = <<>>
    /\ cors = DefaultCORSConfig
    /\ counter = 0
    /\ depth = [p \in Procs |-> 0]
    /\ req = [p \in Procs |-> NoRequest]
    /\ ctx = [p \in Procs |-> <<>>]
    /\ w = [p \in Procs |-> NewResponse]
    /\ logged = [p \in Procs |-> <<>>]
    /\ decision = [p \in Procs |-> "none"]
    /\ trace = [p \in Procs |-> <<>>]
    /\ rate \in R
    /\ burst \in B
    /\ NewRateLimiter
    /\ clock = 0
    /\ pc = [p \in Procs |-> "idle"]
    /\ ip = [p \in Procs |-> "a"]
    /\ now = [p \in Procs |-> 0]
    /\ bsnap = [p \in Procs |-> NoBucket]
    /\ ret = [p \in Procs |-> FALSE]
    /\ log = <<>>
    /\ avail = [p \in Procs |-> 0]
    /\ created = [i \in Keys |-> 0]
    /\ env = NoEnv
    /\ cfg = NoConfig
    /\ run = "unstarted"
    /\ urls \in U
    /\ job = [p \in Procs |-> NoJob]
    /\ bg = <<>>
    /\ done = <<>>

\* A server whose limiter was built with a rate and a burst from the bounds, and
\* whose table urls is empty.
InitWith(W, M) == InitAll(W, M, {<<>>}, 1..MaxRate, 1..MaxBurst)

\* ------------------------------------------------------ RateLimiter.Allow
\* Mutant of AllowLock: the call enters without waiting for the mutex.
AllowLockNoWait(p) ==
    /\ pc[p] = "allow_lock"
    /\ mu' = p
    /\ pc' = [pc EXCEPT ![p] = "allow_lookup"]
    /\ UNCHANGED <<rate, burst, buckets, clock, ip, now, bsnap, ret, histVars>>
    /\ UNCHANGED <<pipeVars, appVars>>

\* rl.mu.Lock(): blocks until the mutex is free.
AllowLock(p) ==
    /\ pc[p] = "allow_lock"
    /\ mu = ""
    /\ mu' = p
    /\ pc' = [pc EXCEPT ![p] = "allow_lookup"]
    /\ UNCHANGED <<rate, burst, buckets, clock, ip, now, bsnap, ret, histVars>>
    /\ UNCHANGED <<pipeVars, appVars>>

\* now := time.Now(); b, exists := rl.buckets[ip]
AllowLookup(p) ==
    /\ pc[p] = "allow_lookup"
    /\ now' = [now EXCEPT ![p] = clock]
    /\ bsnap' = [bsnap EXCEPT ![p] = buckets[ip[p]]]
    /\ pc' = [pc EXCEPT ![p] =
                IF buckets[ip[p]].exists THEN "allow_refill" ELSE "allow_create"]
    /\ UNCHANGED <<limiterVars, ip, ret, histVars>>
    /\ UNCHANGED <<pipeVars, appVars>>

\* Mutant of AllowCreate: the early return leaves without unlocking the mutex.
AllowCreateKeepLock(p) ==
    /\ pc[p] = "allow_create"
    /\ buckets' = [buckets EXCEPT ![ip[p]] =
                     [exists |-> TRUE,
                      tokens |-> burst * TokenScale - TokenScale,
                      lastRefill |-> now[p]]]
    /\ ret' = [ret EXCEPT ![p] = TRUE]
    /\ pc' = [pc EXCEPT ![p] = "allow_ret"]
    /\ now' = [now EXCEPT ![p] = 0]
    /\ bsnap' = [bsnap EXCEPT ![p] = NoBucket]
    /\ created' = [created EXCEPT ![ip[p]] = @ + 1]
    /\ UNCHANGED <<rate, burst, mu, clock, ip, watched, log, avail>>
    /\ UNCHANGED <<pipeVars, appVars>>

\* Mutant of AllowCreate: the new bucket is seeded with burst tokens, the first
\* request not charged.
AllowCreateFull(p) ==
    /\ pc[p] = "allow_create"
    /\ buckets' = [buckets EXCEPT ![ip[p]] =
                     [exists |-> TRUE,
                      tokens |-> burst * TokenScale,
                      lastRefill |-> now[p]]]
    /\ ret' = [ret EXCEPT ![p] = TRUE]
    /\ pc' = [pc EXCEPT ![p] = "allow_unlock"]
    /\ avail' = [avail EXCEPT ![p] = burst * TokenScale]
    /\ created' = [created EXCEPT ![ip[p]] = @ + 1]
    /\ UNCHANGED <<rate, burst, mu, clock, ip, now, bsnap, watched, log>>
    /\ UNCHANGED <<pipeVars, appVars>>

\* Mutant of AllowCreate: the map is replaced by one holding only the new bucket.
AllowCreateReset(p) ==
    /\ pc[p] = "allow_create"
    /\ buckets' = [i \in Keys |->
                     IF i = ip[p]
                       THEN [exists |-> TRUE,
                             tokens |-> burst * TokenScale - TokenScale,
                             lastRefill |-> now[p]]
                       ELSE NoBucket]
    /\ ret' = [ret EXCEPT ![p] = TRUE]
    /\ pc' = [pc EXCEPT ![p] = "allow_unlock"]
    /\ avail' = [avail EXCEPT ![p] = burst * TokenScale]
    /\ created' = [created EXCEPT ![ip[p]] = @ + 1]
    /\ UNCHANGED <<rate, burst, mu, clock, ip, now, bsnap, watched, log>>
    /\ UNCHANGED <<pipeVars, appVars>>

\* if !exists { rl.buckets[ip] = &bucket{burst - 1, now}; return true }
AllowCreate(p) ==
    /\ pc[p] = "allow_create"
    /\ buckets' = [buckets EXCEPT ![ip[p]] =
                     [exists |-> TRUE,
                      tokens |-> burst * TokenScale - TokenScale,
                      lastRefill |-> now[p]]]
    /\ ret' = [ret EXCEPT ![p] = TRUE]
    /\ pc' = [pc EXCEPT ![p] = "allow_unlock"]
    /\ avail' = [avail EXCEPT ![p] = burst * TokenScale]
    /\ created' = [created EXCEPT ![ip[p]] = @ + 1]
    /\ UNCHANGED <<rate, burst, mu, clock, ip, now, bsnap, watched, log>>
    /\ UNCHANGED <<pipeVars, appVars>>

\* Mutant of AllowRefill: lastRefill is not advanced, so the same time is paid
\* for again by the next call.
AllowRefillKeepStamp(p) ==
    /\ pc[p] = "allow_refill"
    /\ LET b == buckets[ip[p]]
           elapsed == now[p] - b.lastRefill
       IN buckets' = [buckets EXCEPT ![ip[p]] =
                        [b EXCEPT !.tokens = @ + elapsed * rate]]
    /\ pc' = [pc EXCEPT ![p] = "allow_cap"]
    /\ UNCHANGED <<rate, burst, mu, clock, ip, now, bsnap, ret, histVars>>
    /\ UNCHANGED <<pipeVars, appVars>>

\* Mutant of AllowRefill: lastRefill is set to now before the elapsed time is
\* taken, so nothing is ever refilled.
AllowRefillStampFirst(p) ==
    /\ pc[p] = "allow_refill"
    /\ buckets' = [buckets EXCEPT ![ip[p]].lastRefill = now[p]]
    /\ pc' = [pc EXCEPT ![p] = "allow_cap"]
    /\ UNCHANGED <<rate, burst, mu, clock, ip, now, bsnap, ret, histVars>>
    /\ UNCHANGED <<pipeVars, appVars>>

\* Mutant of AllowRefill: the refilled tokens are floored to whole tokens.
AllowRefillFloor(p) ==
    /\ pc[p] = "allow_refill"
    /\ LET b == buckets[ip[p]]
           elapsed == now[p] - b.lastRefill
       IN buckets' = [buckets EXCEPT ![ip[p]] =
                        [b EXCEPT !.tokens =
                                      ((@ + elapsed * rate) \div TokenScale) * TokenScale,
                                  !.lastRefill = now[p]]]
    /\ pc' = [pc EXCEPT ![p] = "allow_cap"]
    /\ UNCHANGED <<rate, burst, mu, clock, ip, now, bsnap, ret, histVars>>
    /\ UNCHANGED <<pipeVars, appVars>>

\* elapsed := now.Sub(b.lastRefill).Seconds(); b.tokens += elapsed * rl.rate;
\* b.lastRefill = now.  b points into the map: the entry itself is updated.
AllowRefill(p) ==
    /\ pc[p] = "allow_refill"
    /\ LET b == buckets[ip[p]]
           elapsed == now[p] - b.lastRefill
       IN buckets' = [buckets EXCEPT ![ip[p]] =
                        [b EXCEPT !.tokens = @ + elapsed * rate,
                                  !.lastRefill = now[p]]]
    /\ pc' = [pc EXCEPT ![p] = "allow_cap"]
    /\ UNCHANGED <<rate, burst, mu, clock, ip, now, bsnap, ret, histVars>>
    /\ UNCHANGED <<pipeVars, appVars>>

\* Mutant of AllowCap: the refilled tokens are not capped.
AllowCapSkip(p) ==
    /\ pc[p] = "allow_cap"
    /\ pc' = [pc EXCEPT ![p] = "allow_check"]
    /\ UNCHANGED <<limiterVars, ip, now, bsnap, ret, histVars>>
    /\ UNCHANGED <<pipeVars, appVars>>

\* if b.tokens > float64(rl.burst) { b.tokens = float64(rl.burst) }
AllowCap(p) ==
    /\ pc[p] = "allow_cap"
    /\ buckets' = [buckets EXCEPT ![ip[p]].tokens =
                     IF @ > burst * TokenScale THEN burst * TokenScale ELSE @]
    /\ pc' = [pc EXCEPT ![p] = "allow_check"]
    /\ UNCHANGED <<rate, burst, mu, clock, ip, now, bsnap, ret, histVars>>
    /\ UNCHANGED <<pipeVars, appVars>>

\* Mutant of AllowCheck: a bucket holding exactly one token is denied.
AllowCheckLe(p) ==
    /\ pc[p] = "allow_check"
    /\ avail' = [avail EXCEPT ![p] = buckets[ip[p]].tokens]
    /\ IF buckets[ip[p]].tokens <= TokenScale
         THEN /\ ret' = [ret EXCEPT ![p] = FALSE]
              /\ pc' = [pc EXCEPT ![p] = "allow_unlock"]
         ELSE /\ pc' = [pc EXCEPT ![p] = "allow_dec"]
              /\ UNCHANGED ret
    /\ UNCHANGED <<limiterVars, ip, now, bsnap, watched, log, created>>
    /\ UNCHANGED <<pipeVars, appVars>>

\* if b.tokens < 1 { return false }
AllowCheck(p) ==
    /\ pc[p] = "allow_check"
    /\ avail' = [avail EXCEPT ![p] = buckets[ip[p]].tokens]
    /\ IF buckets[ip[p]].tokens < TokenScale
         THEN /\ ret' = [ret EXCEPT ![p] = FALSE]
              /\ pc' = [pc EXCEPT ![p] = "allow_unlock"]
         ELSE /\ pc' = [pc EXCEPT ![p] = "allow_dec"]
              /\ UNCHANGED ret
    /\ UNCHANGED <<limiterVars, ip, now, bsnap, watched, log, created>>
    /\ UNCHANGED <<pipeVars, appVars>>

\* b.tokens--; return true
AllowDec(p) ==
    /\ pc[p] = "allow_dec"
    /\ buckets' = [buckets EXCEPT ![ip[p]].tokens = @ - TokenScale]
    /\ ret' = [ret EXCEPT ![p] = TRUE]
    /\ pc' = [pc EXCEPT ![p] = "allow_unlock"]
    /\ UNCHANGED <<rate, burst, mu, clock, ip, now, bsnap, histVars>>
    /\ UNCHANGED <<pipeVars, appVars>>

\* defer rl.mu.Unlock(): runs on every return of Allow.  Only the return value
\* outlives the call; its locals are gone.
AllowUnlock(p) ==
    /\ pc[p] = "allow_unlock"
    /\ mu' = ""
    /\ pc' = [pc EXCEPT ![p] = "allow_ret"]
    /\ now' = [now EXCEPT ![p] = 0]
    /\ bsnap' = [bsnap EXCEPT ![p] = NoBucket]
    /\ avail' = [avail EXCEPT ![p] = 0]
    /\ log' = IF ip[p] = watched /\ Len(log) < MaxLog
                THEN Append(log, [now |-> now[p], ok |-> ret[p], avail |-> avail[p]])
                ELSE log
    /\ UNCHANGED <<rate, burst, buckets, clock, ip, ret, watched, created>>
    /\ UNCHANGED <<pipeVars, appVars>>

Allow(p) ==
    \/ AllowLock(p)
    \/ AllowLookup(p)
    \/ AllowCreate(p)
    \/ AllowRefill(p)
    \/ AllowCap(p)
    \/ AllowCheck(p)
    \/ AllowDec(p)
    \/ AllowUnlock(p)

\* ------------------------------------------------- direct callers of Allow
\* rl.Allow(ip) called as the limiter's tests call it.
DirectCall(p, i) ==
    /\ pc[p] = "idle"
    /\ ip' = [ip EXCEPT ![p] = i]
    /\ pc' = [pc EXCEPT ![p] = "allow_lock"]
    /\ UNCHANGED <<limiterVars, now, bsnap, ret, histVars>>
    /\ UNCHANGED <<pipeVars, appVars>>

\* The call's frame is gone once its result is consumed.
DirectReturn(p) ==
    /\ pc[p] = "allow_ret"
    /\ depth[p] = 0
    /\ pc' = [pc EXCEPT ![p] = "idle"]
    /\ ip' = [ip EXCEPT ![p] = "a"]
    /\ ret' = [ret EXCEPT ![p] = FALSE]
    /\ UNCHANGED <<limiterVars, now, bsnap, histVars>>
    /\ UNCHANGED <<pipeVars, appVars>>

\* Time passes (time.Sleep in the tests, or simply the wall clock).
Tick ==
    /\ clock < MaxClock
    /\ clock' = clock + 1
    /\ UNCHANGED <<rate, burst, buckets, mu, callVars, histVars>>
    /\ UNCHANGED <<pipeVars, appVars>>

\* Goroutines calling Allow for any identity, at any time.
NextLimiter ==
    \/ \E p \in Procs : Allow(p)
    \/ \E p \in Procs, i \in IPs : DirectCall(p, i)
    \/ \E p \in Procs : DirectReturn(p)
    \/ Tick

InitLimiter == InitWith({""}, {DeployedMiddlewares})

SpecLimiter == InitLimiter /\ [][NextLimiter]_vars

\* Goroutines that all call Allow for one identity, as TestRateLimiter_Allow,
\* TestRateLimiter_Refill and TestRateLimiter_BurstCap do; its calls are logged.
NextOneIP ==
    \/ \E p \in Procs : Allow(p)
    \/ \E p \in Procs : DirectCall(p, watched)
    \/ \E p \in Procs : DirectReturn(p)
    \/ Tick

InitOneIP == InitWith(IPs, {DeployedMiddlewares})

SpecOneIP == InitOneIP /\ [][NextOneIP]_vars

\* Goroutines that keep calling Allow for one identity while time keeps
\* advancing: the clock ticks on, a goroutine that can call does, and a goroutine
\* inside Allow or about to return goes on unless it waits for the mutex.
NextKeepCalling ==
    \/ \E p \in Procs : Allow(p)
    \/ \E p \in Procs : DirectCall(p, "a")
    \/ \E p \in Procs : DirectReturn(p)
    \/ Tick

InitKeepCalling == InitWith({""}, {DeployedMiddlewares})

SpecKeepCalling ==
    /\ InitKeepCalling
    /\ [][NextKeepCalling]_vars
    /\ WF_vars(Tick)
    /\ \A p \in Procs : /\ WF_vars(DirectCall(p, "a"))
                        /\ WF_vars(Allow(p))
                        /\ WF_vars(DirectReturn(p))

\* ------------------------------------------------- http.ResponseWriter
\* One call made on a response writer by stage `by` (history).
Call(by, op, key, val, code) ==
    [by |-> by, op |-> op, key |-> key, val |-> val, code |-> code]

\* One call the server's own response writer received (history): the stage it
\* came from, its arguments, the byte count the writer reported (n) and the
\* number of logging wrappers it came through (via).
RealCall(by, op, val, code, n, via) ==
    [by |-> by, op |-> op, val |-> val, code |-> code, n |-> n, via |-> via]

\* w.Header().Set(k, v).  Headers set after the status was written are not sent.
HeaderSet(x, by, k, v) ==
    [x EXCEPT !.hdr[k] = v,
              !.calls = Append(@, Call(by, "Header.Set", k, v, 0))]

\* Mutant of WriteHeader: a wrapper records the status and does not pass the
\* call on to the writer it wraps.
WriteHeaderNotForwarded(x, by, code) ==
    LET seen == [x EXCEPT !.wraps = [j \in DOMAIN @ |-> [@[j] EXCEPT !.status = code]],
                          !.calls = Append(@, Call(by, "WriteHeader", "", "", code))]
        real == [seen EXCEPT !.real =
                     Append(@, RealCall(by, "WriteHeader", "", code, 0, 0))]
    IN IF x.wraps # <<>> THEN seen
       ELSE IF x.status = 0
         THEN [real EXCEPT !.status = code, !.sent = x.hdr]
         ELSE real

\* w.WriteHeader(code), through every logging wrapper (responseWriter.WriteHeader:
\* rw.status = code, then the wrapped writer's WriteHeader).  net/http sends the
\* first status only and ignores a later call.
WriteHeader(x, by, code) ==
    LET seen == [x EXCEPT !.wraps = [j \in DOMAIN @ |-> [@[j] EXCEPT !.status = code]],
                          !.calls = Append(@, Call(by, "WriteHeader", "", "", code)),
                          !.real = Append(@, RealCall(by, "WriteHeader", "", code, 0,
                                                      Len(x.wraps)))]
    IN IF x.status = 0
         THEN [seen EXCEPT !.status = code, !.sent = x.hdr]
         ELSE seen

\* w.Write(b), through every logging wrapper (responseWriter.Write: n from the
\* wrapped writer, rw.size += n).  net/http writes status 200 first if none was
\* written, and writes no body (n = 0) for status 204 and 304.
Write(x, by, b) ==
    LET st == IF x.status = 0 THEN 200 ELSE x.status
        n == IF st \in {204, 304} THEN 0 ELSE Len(b)
    IN [x EXCEPT !.status = st,
                 !.sent = IF x.status = 0 THEN x.hdr ELSE @,
                 !.body = IF n > 0 THEN Append(@, b) ELSE @,
                 !.wraps = [j \in DOMAIN @ |-> [@[j] EXCEPT !.size = @ + n]],
                 !.calls = Append(@, Call(by, "Write", "", b, 0)),
                 !.real = Append(@, RealCall(by, "Write", b, 0, n, Len(x.wraps)))]

\* writeJSON(w, status, data), data already encoded as `json`.
WriteJSON(x, by, status, json) ==
    Write(WriteHeader(HeaderSet(x, by, "Content-Type", "application/json"),
                      by, status),
          by, json)

\* ----------------------------------------------------------------- Chain
\* middlewares[i](final): a handler is the sequence of its stages, outermost
\* first, ending with the terminal handler.
Wrap(m, final) == <<m>> \o final

\* Mutant of ChainLoop: the list is walked from its first element to its last.
RECURSIVE ChainLoopForward(_, _, _)
ChainLoopForward(middlewares, i, final) ==
    IF i >= 1
      THEN ChainLoopForward(middlewares, i - 1,
                            Wrap(middlewares[Len(middlewares) - i + 1], final))
      ELSE final

\* for i := len(middlewares) - 1; i >= 0; i-- { final = middlewares[i](final) }
\* (i counts from 1 here).
RECURSIVE ChainLoop(_, _, _)
ChainLoop(middlewares, i, final) ==
    IF i >= 1
      THEN ChainLoop(middlewares, i - 1, Wrap(middlewares[i], final))
      ELSE final

\* Chain(middlewares...)(final)
Chain(middlewares, final) == ChainLoop(middlewares, Len(middlewares), final)

\* run(): chain := middleware.Chain(...); srv.Handler = chain(mux).
Startup ==
    /\ handler = <<>>
    /\ handler' = Chain(mws, Terminal)
    /\ UNCHANGED <<limiterVars, callVars, histVars>>
    /\ UNCHANGED <<appVars, mws, cors, counter, depth, req, ctx, w, logged, decision, trace>>

\* ------------------------------------------------------ serving a request
\* Request p is at `state` in stage `stage`.
At(p, state, stage) ==
    /\ pc[p] = state
    /\ depth[p] \in 1..Len(handler)
    /\ handler[depth[p]] = stage

Entered(p, stage) == [trace EXCEPT ![p] = Append(@, <<"enter", stage>>)]
Left(p, stage) == [trace EXCEPT ![p] = Append(@, <<"exit", stage>>)]

\* next.ServeHTTP(w, r): the stage below starts.
CallNext(p) ==
    /\ pc' = [pc EXCEPT ![p] = "enter"]
    /\ depth' = [depth EXCEPT ![p] = @ + 1]

\* The stage returns to the one that called it; the outermost returns to the
\* server, and the response is complete.
Return(p) ==
    /\ pc' = [pc EXCEPT ![p] = IF depth[p] = 1 THEN "done" ELSE "exit"]
    /\ depth' = [depth EXCEPT ![p] = @ - 1]

\* A panic leaves the stage for the one that called it; out of the outermost
\* stage it reaches the server, which aborts the connection.
Propagate(p) ==
    /\ pc' = [pc EXCEPT ![p] = IF depth[p] = 1 THEN "aborted" ELSE "panic"]
    /\ depth' = [depth EXCEPT ![p] = @ - 1]

\* Mutant of GetRequestID: the value is looked up under another key.
GetRequestIDWrongKey(p) == ""

\* GetRequestID(r.Context()): the id the innermost enclosing RequestID attached.
GetRequestID(p) == IF ctx[p] = <<>> THEN "" ELSE ctx[p][Len(ctx[p])]

\* The server hands request r to srv.Handler.
Arrive(p, r) ==
    /\ pc[p] = "idle"
    /\ handler # <<>>
    /\ req' = [req EXCEPT ![p] = r]
    /\ pc' = [pc EXCEPT ![p] = "enter"]
    /\ depth' = [depth EXCEPT ![p] = 1]
    /\ UNCHANGED <<limiterVars, ip, now, bsnap, ret, histVars>>
    /\ UNCHANGED <<appVars, mws, handler, cors, counter, ctx, w, logged, decision, trace>>

\* Mutant of RequestIDServe: the inbound X-Request-ID is not looked at.
RequestIDServeIgnoreInbound(p) ==
    /\ At(p, "enter", "RequestID")
    /\ LET n == counter + 1
           requestID == Encode(n)
       IN /\ counter' = n
          /\ w' = [w EXCEPT ![p] = HeaderSet(@, "RequestID", "X-Request-ID", requestID)]
          /\ ctx' = [ctx EXCEPT ![p] = Append(@, requestID)]
    /\ trace' = Entered(p, "RequestID")
    /\ CallNext(p)
    /\ UNCHANGED <<limiterVars, ip, now, bsnap, ret, histVars>>
    /\ UNCHANGED <<appVars, mws, handler, cors, req, logged, decision>>

\* Mutant of RequestIDServe: the counter is read and written back in two
\* operations, and the write of a concurrent request is lost.
RequestIDServeLostUpdate(p) ==
    /\ At(p, "enter", "RequestID")
    /\ LET fresh == req[p].xrid = ""
           n == counter + 1
           requestID == IF fresh THEN Encode(n) ELSE req[p].xrid
       IN /\ counter' \in (IF fresh THEN {n, counter} ELSE {counter})
          /\ w' = [w EXCEPT ![p] = HeaderSet(@, "RequestID", "X-Request-ID", requestID)]
          /\ ctx' = [ctx EXCEPT ![p] = Append(@, requestID)]
    /\ trace' = Entered(p, "RequestID")
    /\ CallNext(p)
    /\ UNCHANGED <<limiterVars, ip, now, bsnap, ret, histVars>>
    /\ UNCHANGED <<appVars, mws, handler, cors, req, logged, decision>>

\* RequestID: the inbound X-Request-ID or a new one from the counter, set on the
\* response and attached to the context of the request handed on.
RequestIDServe(p) ==
    /\ At(p, "enter", "RequestID")
    /\ LET fresh == req[p].xrid = ""
           n == counter + 1
           requestID == IF fresh THEN Encode(n) ELSE req[p].xrid
       IN /\ counter' = IF fresh THEN n ELSE counter
          /\ w' = [w EXCEPT ![p] = HeaderSet(@, "RequestID", "X-Request-ID", requestID)]
          /\ ctx' = [ctx EXCEPT ![p] = Append(@, requestID)]
    /\ trace' = Entered(p, "RequestID")
    /\ CallNext(p)
    /\ UNCHANGED <<limiterVars, ip, now, bsnap, ret, histVars>>
    /\ UNCHANGED <<appVars, mws, handler, cors, req, logged, decision>>

RequestIDReturn(p) ==
    /\ At(p, "exit", "RequestID")
    /\ ctx' = [ctx EXCEPT ![p] = SubSeq(@, 1, Len(@) - 1)]
    /\ trace' = Left(p, "RequestID")
    /\ Return(p)
    /\ UNCHANGED <<limiterVars, ip, now, bsnap, ret, histVars>>
    /\ UNCHANGED <<appVars, mws, handler, cors, counter, req, w, logged, decision>>

\* Logging, up to next.ServeHTTP(wrapped, r).
LoggingServe(p) ==
    /\ At(p, "enter", "Logging")
    /\ w' = [w EXCEPT ![p].wraps = Append(@, [status |-> 200, size |-> 0, start |-> clock])]
    /\ trace' = Entered(p, "Logging")
    /\ CallNext(p)
    /\ UNCHANGED <<limiterVars, ip, now, bsnap, ret, histVars>>
    /\ UNCHANGED <<appVars, mws, handler, cors, counter, req, ctx, logged, decision>>

\* Logging, after next.ServeHTTP returned: the log line.
LoggingReturn(p) ==
    /\ At(p, "exit", "Logging")
    /\ LET wrapped == w[p].wraps[Len(w[p].wraps)]
       IN logged' = [logged EXCEPT ![p] =
                       Append(@, [kind |-> "request",
                                  id |-> GetRequestID(p),
                                  method |-> req[p].method,
                                  status |-> wrapped.status,
                                  duration |-> clock - wrapped.start,
                                  size |-> wrapped.size])]
    /\ w' = [w EXCEPT ![p].wraps = SubSeq(@, 1, Len(@) - 1)]
    /\ trace' = Left(p, "Logging")
    /\ Return(p)
    /\ UNCHANGED <<limiterVars, ip, now, bsnap, ret, histVars>>
    /\ UNCHANGED <<appVars, mws, handler, cors, counter, req, ctx, decision>>

\* Recovery, up to next.ServeHTTP(w, r).
RecoveryServe(p) ==
    /\ At(p, "enter", "Recovery")
    /\ trace' = Entered(p, "Recovery")
    /\ CallNext(p)
    /\ UNCHANGED <<limiterVars, ip, now, bsnap, ret, histVars>>
    /\ UNCHANGED <<appVars, mws, handler, cors, counter, req, ctx, w, logged, decision>>

\* Recovery: next.ServeHTTP returned, recover() is nil.
RecoveryReturn(p) ==
    /\ At(p, "exit", "Recovery")
    /\ trace' = Left(p, "Recovery")
    /\ Return(p)
    /\ UNCHANGED <<limiterVars, ip, now, bsnap, ret, histVars>>
    /\ UNCHANGED <<appVars, mws, handler, cors, counter, req, ctx, w, logged, decision>>

RecoveryBody == "{\"error\":\"internal server error\",\"code\":500}"

\* Recovery: next.ServeHTTP panicked; the deferred function recovers, logs and
\* writes the 500 response, and the stage returns normally.
RecoveryRecover(p) ==
    /\ At(p, "panic", "Recovery")
    /\ logged' = [logged EXCEPT ![p] =
                    Append(@, [kind |-> "PANIC",
                               id |-> GetRequestID(p),
                               method |-> req[p].method,
                               status |-> 0, duration |-> 0, size |-> 0])]
    /\ w' = [w EXCEPT ![p] =
               Write(WriteHeader(HeaderSet(@, "Recovery", "Content-Type", "application/json"),
                                 "Recovery", 500),
                     "Recovery", RecoveryBody)]
    /\ trace' = Left(p, "Recovery")
    /\ Return(p)
    /\ UNCHANGED <<limiterVars, ip, now, bsnap, ret, histVars>>
    /\ UNCHANGED <<appVars, mws, handler, cors, counter, req, ctx, decision>>

\* for _, o := range config.AllowedOrigins { if o == "*" || o == origin ... }
OriginAllowed(config, origin) ==
    \E k \in 1..Len(config.AllowedOrigins) :
        config.AllowedOrigins[k] = "*" \/ config.AllowedOrigins[k] = origin

\* Mutant of CORSHeaders: Access-Control-Allow-Origin is the allow-list entry
\* that matched, not the request's origin.
CORSHeadersListEntry(x, config, origin) ==
    LET k == CHOOSE j \in 1..Len(config.AllowedOrigins) :
                 config.AllowedOrigins[j] = "*" \/ config.AllowedOrigins[j] = origin
    IN HeaderSet(
         HeaderSet(
           HeaderSet(
             HeaderSet(x, "CORS", "Access-Control-Allow-Origin", config.AllowedOrigins[k]),
             "CORS", "Access-Control-Allow-Methods", JoinWith(config.AllowedMethods, ", ")),
           "CORS", "Access-Control-Allow-Headers", JoinWith(config.AllowedHeaders, ", ")),
         "CORS", "Access-Control-Max-Age", Itoa(config.MaxAge))

\* The four headers CORS sets for an allowed origin.
CORSHeaders(x, config, origin) ==
    HeaderSet(
      HeaderSet(
        HeaderSet(
          HeaderSet(x, "CORS", "Access-Control-Allow-Origin", origin),
          "CORS", "Access-Control-Allow-Methods", JoinWith(config.AllowedMethods, ", ")),
        "CORS", "Access-Control-Allow-Headers", JoinWith(config.AllowedHeaders, ", ")),
      "CORS", "Access-Control-Max-Age", Itoa(config.MaxAge))

\* Mutant of CORSServe: the early return for a request without Origin is
\* missing, so every OPTIONS request is answered here.
CORSServeOptionsAlways(p) ==
    /\ At(p, "enter", "CORS")
    /\ LET origin == req[p].origin
           annotated == IF origin # "" /\ OriginAllowed(cors, origin)
                          THEN CORSHeaders(w[p], cors, origin)
                          ELSE w[p]
       IN IF req[p].method = "OPTIONS"
            THEN /\ w' = [w EXCEPT ![p] = WriteHeader(annotated, "CORS", 204)]
                 /\ trace' = [trace EXCEPT ![p] = @ \o <<<<"enter", "CORS">>, <<"exit", "CORS">>>>]
                 /\ Return(p)
            ELSE /\ w' = [w EXCEPT ![p] = annotated]
                 /\ trace' = Entered(p, "CORS")
                 /\ CallNext(p)
    /\ UNCHANGED <<limiterVars, ip, now, bsnap, ret, histVars>>
    /\ UNCHANGED <<appVars, mws, handler, cors, counter, req, ctx, logged, decision>>

\* Mutant of CORSServe: the return after the 204 of a preflight is missing.
CORSServeNoShortCircuit(p) ==
    /\ At(p, "enter", "CORS")
    /\ LET origin == req[p].origin
           annotated == IF origin # "" /\ OriginAllowed(cors, origin)
                          THEN CORSHeaders(w[p], cors, origin)
                          ELSE w[p]
       IN w' = [w EXCEPT ![p] = IF origin # "" /\ req[p].method = "OPTIONS"
                                  THEN WriteHeader(annotated, "CORS", 204)
                                  ELSE annotated]
    /\ trace' = Entered(p, "CORS")
    /\ CallNext(p)
    /\ UNCHANGED <<limiterVars, ip, now, bsnap, ret, histVars>>
    /\ UNCHANGED <<appVars, mws, handler, cors, counter, req, ctx, logged, decision>>

\* Mutant of CORSServe: the 204 of a preflight is written before the headers
\* are set.
CORSServeStatusFirst(p) ==
    /\ At(p, "enter", "CORS")
    /\ LET origin == req[p].origin
           preflight == origin # "" /\ req[p].method = "OPTIONS"
           started == IF preflight THEN WriteHeader(w[p], "CORS", 204) ELSE w[p]
           annotated == IF origin # "" /\ OriginAllowed(cors, origin)
                          THEN CORSHeaders(started, cors, origin)
                          ELSE started
       IN IF preflight
            THEN /\ w' = [w EXCEPT ![p] = annotated]
                 /\ trace' = [trace EXCEPT ![p] = @ \o <<<<"enter", "CORS">>, <<"exit", "CORS">>>>]
                 /\ Return(p)
            ELSE /\ w' = [w EXCEPT ![p] = annotated]
                 /\ trace' = Entered(p, "CORS")
                 /\ CallNext(p)
    /\ UNCHANGED <<limiterVars, ip, now, bsnap, ret, histVars>>
    /\ UNCHANGED <<appVars, mws, handler, cors, counter, req, ctx, logged, decision>>

\* Mutant of CORSServe: a request from an origin that is not allowed is turned
\* away with 403.
CORSServeRejectsForeign(p) ==
    /\ At(p, "enter", "CORS")
    /\ LET origin == req[p].origin
           foreign == origin # "" /\ ~OriginAllowed(cors, origin)
           annotated == IF origin # "" /\ OriginAllowed(cors, origin)
                          THEN CORSHeaders(w[p], cors, origin)
                          ELSE w[p]
       IN IF foreign \/ (origin # "" /\ req[p].method = "OPTIONS")
            THEN /\ w' = [w EXCEPT ![p] =
                            WriteHeader(annotated, "CORS", IF foreign THEN 403 ELSE 204)]
                 /\ trace' = [trace EXCEPT ![p] = @ \o <<<<"enter", "CORS">>, <<"exit", "CORS">>>>]
                 /\ Return(p)
            ELSE /\ w' = [w EXCEPT ![p] = annotated]
                 /\ trace' = Entered(p, "CORS")
                 /\ CallNext(p)
    /\ UNCHANGED <<limiterVars, ip, now, bsnap, ret, histVars>>
    /\ UNCHANGED <<appVars, mws, handler, cors, counter, req, ctx, logged, decision>>

\* CORS(config): no Origin, pass on; an allowed origin gets the headers; OPTIONS
\* is answered 204 here; anything else is passed on.
CORSServe(p) ==
    /\ At(p, "enter", "CORS")
    /\ LET origin == req[p].origin
           annotated == IF origin # "" /\ OriginAllowed(cors, origin)
                          THEN CORSHeaders(w[p], cors, origin)
                          ELSE w[p]
       IN IF origin # "" /\ req[p].method = "OPTIONS"
            THEN /\ w' = [w EXCEPT ![p] = WriteHeader(annotated, "CORS", 204)]
                 /\ trace' = [trace EXCEPT ![p] = @ \o <<<<"enter", "CORS">>, <<"exit", "CORS">>>>]
                 /\ Return(p)
            ELSE /\ w' = [w EXCEPT ![p] = annotated]
                 /\ trace' = Entered(p, "CORS")
                 /\ CallNext(p)
    /\ UNCHANGED <<limiterVars, ip, now, bsnap, ret, histVars>>
    /\ UNCHANGED <<appVars, mws, handler, cors, counter, req, ctx, logged, decision>>

CORSReturn(p) ==
    /\ At(p, "exit", "CORS")
    /\ trace' = Left(p, "CORS")
    /\ Return(p)
    /\ UNCHANGED <<limiterVars, ip, now, bsnap, ret, histVars>>
    /\ UNCHANGED <<appVars, mws, handler, cors, counter, req, ctx, w, logged, decision>>

\* net.SplitHostPort(hostport): the host before the last colon, without the
\* brackets of an IPv6 literal; err is set for an address without a port, with
\* colons outside brackets or with misplaced brackets.
SplitHostPort(hostport) ==
    LET i == LastIndexOf(hostport, ":")
        end == IndexOf(hostport, "]")
        n == Len(hostport)
        failed == [host |-> <<>>, err |-> TRUE]
    IN IF i = 0 THEN failed
       ELSE IF hostport[1] = "["
         THEN IF end = 0 \/ end + 1 # i THEN failed
              ELSE IF IndexOf(SubSeq(hostport, 2, n), "[") # 0 THEN failed
              ELSE IF IndexOf(SubSeq(hostport, end + 1, n), "]") # 0 THEN failed
              ELSE [host |-> SubSeq(hostport, 2, end - 1), err |-> FALSE]
         ELSE IF IndexOf(SubSeq(hostport, 1, i - 1), ":") # 0 THEN failed
              ELSE IF IndexOf(hostport, "[") # 0 \/ IndexOf(hostport, "]") # 0 THEN failed
              ELSE [host |-> SubSeq(hostport, 1, i - 1), err |-> FALSE]

\* Mutant of getClientIP: an X-Forwarded-For whose first element is empty is
\* passed over like an absent one.
getClientIPSkipEmptyElement(r) ==
    IF r.xff # <<>> /\ TrimSpace(FirstPart(r.xff)) # <<>>
      THEN Join(TrimSpace(FirstPart(r.xff)))
    ELSE IF r.xri # "" THEN r.xri
    ELSE IF SplitHostPort(r.remote).err THEN Join(r.remote)
    ELSE Join(SplitHostPort(r.remote).host)

\* getClientIP(r)
getClientIP(r) ==
    IF r.xff # <<>> THEN Join(TrimSpace(FirstPart(r.xff)))
    ELSE IF r.xri # "" THEN r.xri
    ELSE IF SplitHostPort(r.remote).err THEN Join(r.remote)
    ELSE Join(SplitHostPort(r.remote).host)

\* RateLimiter.Middleware: ip := getClientIP(r), then the call rl.Allow(ip).
RateLimitServe(p) ==
    /\ At(p, "enter", "RateLimit")
    /\ ip' = [ip EXCEPT ![p] = getClientIP(req[p])]
    /\ pc' = [pc EXCEPT ![p] = "allow_lock"]
    /\ trace' = Entered(p, "RateLimit")
    /\ UNCHANGED <<limiterVars, now, bsnap, ret, histVars>>
    /\ UNCHANGED <<appVars, mws, handler, cors, counter, depth, req, ctx, w, logged, decision>>

RateLimitBody == "{\"error\":\"rate limit exceeded\",\"code\":429}"

\* The 429 response of RateLimiter.Middleware.
Reject(x) ==
    Write(WriteHeader(HeaderSet(HeaderSet(x, "RateLimit", "Content-Type", "application/json"),
                                "RateLimit", "Retry-After", "1"),
                      "RateLimit", 429),
          "RateLimit", RateLimitBody)

\* Mutant of RateLimitDecide: the return after the 429 response is missing.
RateLimitNoReturn(p) ==
    /\ At(p, "allow_ret", "RateLimit")
    /\ decision' = [decision EXCEPT ![p] = IF ret[p] THEN "allowed" ELSE "denied"]
    /\ w' = [w EXCEPT ![p] = IF ret[p] THEN @ ELSE Reject(@)]
    /\ trace' = trace
    /\ CallNext(p)
    /\ ip' = [ip EXCEPT ![p] = "a"]
    /\ ret' = [ret EXCEPT ![p] = FALSE]
    /\ UNCHANGED <<limiterVars, now, bsnap, histVars>>
    /\ UNCHANGED <<appVars, mws, handler, cors, counter, req, ctx, logged>>

\* RateLimiter.Middleware, once Allow answered: 429 and return, or the next stage.
RateLimitDecide(p) ==
    /\ At(p, "allow_ret", "RateLimit")
    /\ decision' = [decision EXCEPT ![p] = IF ret[p] THEN "allowed" ELSE "denied"]
    /\ IF ret[p]
         THEN /\ w' = w
              /\ trace' = trace
              /\ CallNext(p)
         ELSE /\ w' = [w EXCEPT ![p] = Reject(@)]
              /\ trace' = Left(p, "RateLimit")
              /\ Return(p)
    /\ ip' = [ip EXCEPT ![p] = "a"]
    /\ ret' = [ret EXCEPT ![p] = FALSE]
    /\ UNCHANGED <<limiterVars, now, bsnap, histVars>>
    /\ UNCHANGED <<appVars, mws, handler, cors, counter, req, ctx, logged>>

RateLimitReturn(p) ==
    /\ At(p, "exit", "RateLimit")
    /\ trace' = Left(p, "RateLimit")
    /\ Return(p)
    /\ UNCHANGED <<limiterVars, ip, now, bsnap, ret, histVars>>
    /\ UNCHANGED <<appVars, mws, handler, cors, counter, req, ctx, w, logged, decision>>

\* The statuses the routes of the mux answer with, and a body for each.
MuxStatuses == {200, 404}
MuxBody(status) ==
    IF status = 200 THEN "{\"status\":\"ok\"}\n"
    ELSE "{\"error\":\"short url not found\",\"code\":404}\n"

\* The mux dispatches the request to a route's handler.
MuxServe(p) ==
    /\ At(p, "enter", "mux")
    /\ pc' = [pc EXCEPT ![p] = "mux_run"]
    /\ trace' = Entered(p, "mux")
    /\ UNCHANGED <<limiterVars, ip, now, bsnap, ret, histVars>>
    /\ UNCHANGED <<appVars, mws, handler, cors, counter, depth, req, ctx, w, logged, decision>>

\* The route's handler answers through writeJSON or writeError.
MuxWrite(p, status) ==
    /\ At(p, "mux_run", "mux")
    /\ w' = [w EXCEPT ![p] = WriteJSON(@, "mux", status, MuxBody(status))]
    /\ pc' = [pc EXCEPT ![p] = "mux_written"]
    /\ UNCHANGED <<limiterVars, ip, now, bsnap, ret, histVars>>
    /\ UNCHANGED <<appVars, mws, handler, cors, counter, depth, req, ctx, logged, decision, trace>>

MuxReturn(p) ==
    /\ At(p, "mux_written", "mux")
    /\ trace' = Left(p, "mux")
    /\ Return(p)
    /\ UNCHANGED <<limiterVars, ip, now, bsnap, ret, histVars>>
    /\ UNCHANGED <<appVars, mws, handler, cors, counter, req, ctx, w, logged, decision>>

\* The route's handler panics, before or after it wrote its answer.
MuxPanic(p) ==
    /\ At(p, "mux_run", "mux") \/ At(p, "mux_written", "mux")
    /\ trace' = Left(p, "mux")
    /\ Propagate(p)
    /\ UNCHANGED <<limiterVars, ip, now, bsnap, ret, histVars>>
    /\ UNCHANGED <<appVars, mws, handler, cors, counter, req, ctx, w, logged, decision>>

\* A panic passes through a stage that does not recover: RequestID, Logging
\* (which then prints no line), CORS, RateLimiter.Middleware.
Unwind(p) ==
    /\ pc[p] = "panic"
    /\ depth[p] \in 1..Len(handler)
    /\ handler[depth[p]] # "Recovery"
    /\ ctx' = [ctx EXCEPT ![p] =
                 IF handler[depth[p]] = "RequestID" THEN SubSeq(@, 1, Len(@) - 1) ELSE @]
    /\ w' = [w EXCEPT ![p].wraps =
               IF handler[depth[p]] = "Logging" THEN SubSeq(@, 1, Len(@) - 1) ELSE @]
    /\ trace' = Left(p, handler[depth[p]])
    /\ Propagate(p)
    /\ UNCHANGED <<limiterVars, ip, now, bsnap, ret, histVars>>
    /\ UNCHANGED <<appVars, mws, handler, cors, counter, req, logged, decision>>

Serve(p) ==
    \/ RequestIDServe(p) \/ RequestIDReturn(p)
    \/ LoggingServe(p) \/ LoggingReturn(p)
    \/ RecoveryServe(p) \/ RecoveryReturn(p) \/ RecoveryRecover(p)
    \/ CORSServe(p) \/ CORSReturn(p)
    \/ RateLimitServe(p) \/ Allow(p) \/ RateLimitDecide(p) \/ RateLimitReturn(p)
    \/ MuxServe(p) \/ MuxReturn(p) \/ MuxPanic(p)
    \/ Unwind(p)

\* The requests clients send to the deployed server: plain and cross-origin
\* requests and preflights, from one address, without an inbound X-Request-ID.
Methods == {"GET", "OPTIONS"}
Origins == {"", "https://app.test"}

Requests ==
    {[method |-> m, origin |-> o, xrid |-> "", xff |-> <<>>, xri |-> "",
      remote |-> <<"a", ":", "8">>] : m \in Methods, o \in Origins}

\* The deployed server: run() composes the chain, then every connection's
\* goroutine serves its request through it.  The clock is read but does not
\* advance here: what the passing of time does to the limiter is the subject of
\* SpecLimiter and SpecOneIP.
Next ==
    \/ Startup
    \/ \E p \in Procs, r \in Requests : Arrive(p, r)
    \/ \E p \in Procs : Serve(p)
    \/ \E p \in Procs, status \in MuxStatuses : MuxWrite(p, status)

Init == InitWith({""}, {DeployedMiddlewares})

Spec == Init /\ [][Next]_vars

\* Chain applied to any list of up to MaxStages of the middlewares, and one
\* request served through the result while time passes.
Middlewares == {"RequestID", "Logging", "Recovery", "CORS", "RateLimit"}

StageLists == UNION {[1..n -> Middlewares] : n \in 0..MaxStages}

NextChain ==
    \/ Startup
    \/ \E r \in Requests : Arrive("p1", r)
    \/ Serve("p1")
    \/ \E status \in MuxStatuses : MuxWrite("p1", status)
    \/ Tick

InitChain == InitWith({""}, StageLists)

SpecChain == InitChain /\ [][NextChain]_vars

\* Requests that name their client in different ways: X-Forwarded-For with one
\* or more elements, with spaces, with an empty first element; X-Real-IP; a
\* connection address with a port, without one, empty, or an IPv6 literal.
ForwardedFor ==
    {<<>>, <<"a">>, <<" ", "a", " ", ",", " ", "b">>, <<",", "a">>, <<" ">>}
RealIPs == {"", "b"}
RemoteAddrs == {<<"a", ":", "8">>, <<"b">>, <<>>, <<"[", "a", "]", ":", "8">>}

ClientRequest(xff, xri, remote) ==
    [method |-> "GET", origin |-> "", xrid |-> "", xff |-> xff, xri |-> xri,
     remote |-> remote]

ClientRequests ==
    {ClientRequest(xff, xri, remote) :
        xff \in ForwardedFor, xri \in RealIPs, remote \in RemoteAddrs}

\* Requests of a second client behind no proxy, or behind one that sends an
\* X-Forwarded-For without a first element.
UnnamedRequests ==
    {ClientRequest(<<>>, "", <<>>), ClientRequest(<<",", "b">>, "a", <<"a", ":", "8">>),
     ClientRequest(<<>>, "", <<"a", ":", "8">>)}

\* The limiter's middleware in front of a handler that answers, as its tests
\* set it up; no time passes.
NextClientIP ==
    \/ Startup
    \/ \E r \in ClientRequests : Arrive("p1", r)
    \/ \E r \in UnnamedRequests : Arrive("p2", r)
    \/ \E p \in Procs : RateLimitServe(p)
    \/ \E p \in Procs : Allow(p)
    \/ \E p \in Procs : RateLimitDecide(p)
    \/ \E p \in Procs : RateLimitReturn(p)
    \/ \E p \in Procs : MuxServe(p)
    \/ \E p \in Procs, status \in MuxStatuses : MuxWrite(p, status)
    \/ \E p \in Procs : MuxReturn(p)

InitClientIP == InitAll({""}, {<<"RateLimit">>}, {<<>>}, {1}, 1..MaxBurst)

SpecClientIP == InitClientIP /\ [][NextClientIP]_vars

\* A request without Origin, from the same address.
PlainRequest == [method |-> "GET", origin |-> "", xrid |-> "", xff |-> <<>>, xri |-> "",
                 remote |-> <<"a", ":", "8">>]

\* The deployed server with clients that may send an X-Request-ID of their own.
InboundIDs == {"", "client-1"}

\* A preflight from the same address.
PreflightRequest == [method |-> "OPTIONS", origin |-> "https://app.test", xrid |-> "",
                     xff |-> <<>>, xri |-> "", remote |-> <<"a", ":", "8">>]

IDRequests ==
    {[r EXCEPT !.xrid = x] : r \in {PlainRequest, PreflightRequest}, x \in InboundIDs}

NextIDs ==
    \/ Startup
    \/ \E p \in Procs, r \in IDRequests : Arrive(p, r)
    \/ \E p \in Procs : Serve(p)
    \/ \E p \in Procs, status \in MuxStatuses : MuxWrite(p, status)

InitIDs == InitWith({""}, {DeployedMiddlewares})

SpecIDs == InitIDs /\ [][NextIDs]_vars

\* The deployed chain built around CORS(config) for allow-lists other than the
\* default one: the wildcard, one exact origin, the wildcard after another
\* entry, and the empty list.
AllowLists ==
    {<<"*">>, <<"https://app.test">>, <<"https://app.test", "*">>, <<>>}

CORSConfigs == {[DefaultCORSConfig EXCEPT !.AllowedOrigins = l] : l \in AllowLists}

\* run() with config in the place of DefaultCORSConfig().
StartupWith(config) ==
    /\ handler = <<>>
    /\ handler' = Chain(mws, Terminal)
    /\ cors' = config
    /\ UNCHANGED <<limiterVars, callVars, histVars>>
    /\ UNCHANGED <<appVars, mws, counter, depth, req, ctx, w, logged, decision, trace>>

CORSOrigins == {"", "https://app.test", "https://evil.test"}

CORSRequests ==
    {[method |-> m, origin |-> o, xrid |-> "", xff |-> <<>>, xri |-> "",
      remote |-> <<"a", ":", "8">>] : m \in Methods, o \in CORSOrigins}

\* One client sends the cross-origin traffic, the other plain requests.
NextCORS ==
    \/ \E config \in CORSConfigs : StartupWith(config)
    \/ \E r \in CORSRequests : Arrive("p1", r)
    \/ Arrive("p2", PlainRequest)
    \/ \E p \in Procs : Serve(p)
    \/ \E p \in Procs, status \in MuxStatuses : MuxWrite(p, status)

InitCORS == InitWith({""}, {DeployedMiddlewares})

SpecCORS == InitCORS /\ [][NextCORS]_vars

\* ------------------------------------------------------------- config
\* Config.Port, Config.RateLimit and Config.RateBurst when the environment sets none.
DefaultPort == 8080
DefaultRateLimit == 10
DefaultRateBurst == 20
MaxPort == 65535

\* config.Load() with the environment e: the Config, or the error in err.  A
\* variable that is not set reads as the empty text.  RateLimit is num / den.
LoadRateNegativeOnly(e) ==
    LET p == Atoi(e.PORT)
        r == ParseFloat(e.RATE_LIMIT)
        b == Atoi(e.RATE_BURST)
        Error(msg) == [NoConfig EXCEPT !.err = msg]
    IN IF e.PORT # <<>> /\ p.err THEN Error("invalid PORT")
       ELSE IF e.PORT # <<>> /\ (p.value < 1 \/ p.value > MaxPort)
         THEN Error("PORT must be between 1 and 65535")
       ELSE IF e.RATE_LIMIT # <<>> /\ r.err THEN Error("invalid RATE_LIMIT")
       ELSE IF e.RATE_LIMIT # <<>> /\ r.num < 0 THEN Error("RATE_LIMIT must be positive")
       ELSE IF e.RATE_BURST # <<>> /\ b.err THEN Error("invalid RATE_BURST")
       ELSE IF e.RATE_BURST # <<>> /\ b.value < 1 THEN Error("RATE_BURST must be at least 1")
       ELSE [err |-> "",
             Port |-> IF e.PORT # <<>> THEN p.value ELSE DefaultPort,
             RateLimit |-> IF e.RATE_LIMIT # <<>> THEN [num |-> r.num, den |-> r.den]
                           ELSE [num |-> DefaultRateLimit, den |-> 1],
             RateBurst |-> IF e.RATE_BURST # <<>> THEN b.value ELSE DefaultRateBurst]
Load(e) ==
    LET p == Atoi(e.PORT)
        r == ParseFloat(e.RATE_LIMIT)
        b == Atoi(e.RATE_BURST)
        Error(msg) == [NoConfig EXCEPT !.err = msg]
    IN IF e.PORT # <<>> /\ p.err THEN Error("invalid PORT")
       ELSE IF e.PORT # <<>> /\ (p.value < 1 \/ p.value > MaxPort)
         THEN Error("PORT must be between 1 and 65535")
       ELSE IF e.RATE_LIMIT # <<>> /\ r.err THEN Error("invalid RATE_LIMIT")
       ELSE IF e.RATE_LIMIT # <<>> /\ r.num <= 0 THEN Error("RATE_LIMIT must be positive")
       ELSE IF e.RATE_BURST # <<>> /\ b.err THEN Error("invalid RATE_BURST")
       ELSE IF e.RATE_BURST # <<>> /\ b.value < 1 THEN Error("RATE_BURST must be at least 1")
       ELSE [err |-> "",
             Port |-> IF e.PORT # <<>> THEN p.value ELSE DefaultPort,
             RateLimit |-> IF e.RATE_LIMIT # <<>> THEN [num |-> r.num, den |-> r.den]
                           ELSE [num |-> DefaultRateLimit, den |-> 1],
             RateBurst |-> IF e.RATE_BURST # <<>> THEN b.value ELSE DefaultRateBurst]

\* ------------------------------------------------- store, service, handlers
\* ErrorResponse{Error: message, Code: n} as encoding/json writes it.
ErrorJSON(message, n) == "{\"error\":\"" \o message \o "\",\"code\":" \o Itoa(n) \o "}"

\* writeError(w, status, message)
writeError(x, by, status, message) ==
    WriteJSON(x, by, status, ErrorJSON(message, status) \o "\n")

\* hexEscapeNonASCII(s)
hexEscapeNonASCII(cs) ==
    Join([k \in 1..Len(cs) |->
            IF cs[k] \in DOMAIN NonASCII THEN "%" \o NonASCII[cs[k]] ELSE cs[k]])

\* htmlEscape(s)
htmlEscape(cs) ==
    Join([k \in 1..Len(cs) |->
            CASE cs[k] = "&" -> "&amp;"
              [] cs[k] = "<" -> "&lt;"
              [] cs[k] = ">" -> "&gt;"
              [] cs[k] = "\"" -> "&#34;"
              [] cs[k] = "'" -> "&#39;"
              [] OTHER -> cs[k]])

\* http.Redirect(w, r, url, code) for an absolute url and code 301.
HTTPRedirect(x, by, method, url, code) ==
    LET hadCT == x.hdr["Content-Type"] # ""
        located == HeaderSet(x, by, "Location", hexEscapeNonASCII(url))
        typed == IF ~hadCT /\ method \in {"GET", "HEAD"}
                   THEN HeaderSet(located, by, "Content-Type", "text/html; charset=utf-8")
                   ELSE located
        headed == WriteHeader(typed, by, code)
    IN IF ~hadCT /\ method = "GET"
         THEN Write(headed, by,
                    "<a href=\"" \o htmlEscape(url) \o "\">Moved Permanently</a>.\n\n")
         ELSE headed

\* Config.BaseURL when BASE_URL is not set, as NewURLService keeps it.
BaseURL == "http://localhost:8080"

\* The code Create inserts before it knows the id.
placeholder == "_placeholder_"

\* The rows a SELECT or UPDATE with WHERE code = ? (original = ?) matches.
RowsByCode(code) == {i \in 1..Len(urls) : urls[i].Code = code}
RowsByOriginal(original) == {i \in 1..Len(urls) : urls[i].Original = original}

\* SELECT COALESCE(SUM(clicks), 0) FROM urls
RECURSIVE SumClicks(_)
SumClicks(rows) == IF rows = <<>> THEN 0 ELSE Head(rows).Clicks + SumClicks(Tail(rows))

\* UPDATE urls SET clicks = clicks + 1 WHERE code = ?
ClicksAddedAll(code) == [i \in 1..Len(urls) |-> [urls[i] EXCEPT !.Clicks = @ + 1]]
ClicksAdded(code) ==
    [i \in 1..Len(urls) |->
        IF urls[i].Code = code THEN [urls[i] EXCEPT !.Clicks = @ + 1] ELSE urls[i]]

\* The calls made so far: those that returned and those in progress.
Busy(p) == job[p].at # ""
Started == Len(done) + Cardinality({p \in Procs : Busy(p)})

\* What no step of the handlers, the service or the repository touches.
AppFrame ==
    UNCHANGED <<limiterVars, callVars, histVars, mws, handler, cors, counter, depth, req,
                ctx, logged, decision, trace, env, cfg, run>>

\* A goroutine enters a function with a fresh frame.
Begin(p, frame) ==
    /\ ~Busy(p)
    /\ Started < MaxCalls
    /\ job' = [job EXCEPT ![p] = frame]
    /\ UNCHANGED <<urls, bg, done>>
    /\ AppFrame

\* s.Shorten(originalURL), s.Resolve(code), s.Stats(code), s.GlobalStats()
ShortenCall(p, originalURL) ==
    /\ Begin(p, [NoJob EXCEPT !.op = "Shorten", !.url = originalURL, !.at = "validate"])
    /\ UNCHANGED w
ResolveCall(p, code) ==
    /\ Begin(p, [NoJob EXCEPT !.op = "Resolve", !.code = code, !.at = "check"])
    /\ UNCHANGED w
StatsCall(p, code) ==
    /\ Begin(p, [NoJob EXCEPT !.op = "Stats", !.code = code, !.at = "check"])
    /\ UNCHANGED w
GlobalStatsCall(p) ==
    /\ Begin(p, [NoJob EXCEPT !.op = "GlobalStats", !.at = "globalStats"])
    /\ UNCHANGED w

\* r.Create(original), r.IncrementClicks(code), r.GetByCode(code)
CreateCall(p, original) ==
    /\ Begin(p, [NoJob EXCEPT !.op = "Create", !.url = original, !.at = "insert"])
    /\ UNCHANGED w
IncrementClicksCall(p, code) ==
    /\ Begin(p, [NoJob EXCEPT !.op = "IncrementClicks", !.code = code, !.at = "increment"])
    /\ UNCHANGED w
GetByCodeCall(p, code) ==
    /\ Begin(p, [NoJob EXCEPT !.op = "GetByCode", !.code = code, !.at = "getByCode"])
    /\ UNCHANGED w

\* Handler.CreateShortURL(w, r) up to its call of Shorten: r has the method, and
\* a body that decodes to CreateRequest{URL: url} or does not decode.
CreateShortURL(p, method, json, url) ==
    LET frame == [NoJob EXCEPT !.h = "CreateShortURL", !.method = method, !.json = json,
                               !.url = url]
    IN /\ Begin(p, IF method = "POST" /\ json
                     THEN [frame EXCEPT !.op = "Shorten", !.at = "validate"]
                     ELSE [frame EXCEPT !.at = "replied"])
       /\ w' = [w EXCEPT ![p] =
                 IF method # "POST"
                   THEN writeError(NewResponse, "handler", 405, "method not allowed")
                 ELSE IF ~json
                   THEN writeError(NewResponse, "handler", 400, "invalid JSON body")
                 ELSE NewResponse]

\* Handler.Redirect(w, r) up to its call of Resolve: code is the path without "/".
Redirect(p, code) ==
    LET frame == [NoJob EXCEPT !.h = "Redirect", !.method = "GET", !.code = code]
    IN /\ Begin(p, IF code = "" THEN [frame EXCEPT !.at = "replied"]
                   ELSE [frame EXCEPT !.op = "Resolve", !.at = "check"])
       /\ w' = [w EXCEPT ![p] =
                 IF code = "" THEN writeError(NewResponse, "handler", 400, "code is required")
                 ELSE NewResponse]

\* Handler.GetStats(w, r) up to its call of Stats.
GetStats(p, code) ==
    LET frame == [NoJob EXCEPT !.h = "GetStats", !.method = "GET", !.code = code]
    IN /\ Begin(p, IF code = "" THEN [frame EXCEPT !.at = "replied"]
                   ELSE [frame EXCEPT !.op = "Stats", !.at = "check"])
       /\ w' = [w EXCEPT ![p] =
                 IF code = "" THEN writeError(NewResponse, "handler", 400, "code is required")
                 ELSE NewResponse]

\* A step of the call of p that stays inside the service and the repository.
Step(p, from, frame) ==
    /\ job[p].at = from
    /\ job' = [job EXCEPT ![p] = frame]
    /\ UNCHANGED <<w, done>>
    /\ AppFrame

\* Shorten: validateURL(originalURL), and return on its error.
ShortenValidate(p) ==
    /\ Step(p, "validate",
            [job[p] EXCEPT !.err = validateURL(job[p].url),
                           !.at = IF validateURL(job[p].url) = "" THEN "getByOriginal"
                                  ELSE "return"])
    /\ UNCHANGED <<urls, bg>>

\* Shorten: s.repo.GetByOriginal(originalURL); a row found is the result.
ShortenGetByOriginalNoReuse(p) ==
    /\ Step(p, "getByOriginal", [job[p] EXCEPT !.at = "insert", !.dbops = @ + 1])
    /\ UNCHANGED <<urls, bg>>
ShortenGetByOriginal(p) ==
    /\ \/ /\ RowsByOriginal(job[p].url) = {}
          /\ Step(p, "getByOriginal",
                  [job[p] EXCEPT !.at = "insert", !.dbops = @ + 1])
       \/ \E i \in RowsByOriginal(job[p].url) :
             Step(p, "getByOriginal",
                  [job[p] EXCEPT !.out = urls[i], !.at = "respond", !.dbops = @ + 1])
    /\ UNCHANGED <<urls, bg>>

\* Create: INSERT INTO urls (code, original) VALUES ('_placeholder_', ?), which
\* the UNIQUE constraint on code refuses while another row holds the placeholder;
\* then LastInsertId.
CreateInsert(p) ==
    IF RowsByCode(placeholder) # {}
      THEN /\ Step(p, "insert",
                   [job[p] EXCEPT !.err = "driver", !.at = "return", !.dbops = @ + 1])
           /\ UNCHANGED <<urls, bg>>
      ELSE /\ Step(p, "insert",
                   [job[p] EXCEPT !.id = Len(urls) + 1, !.at = "update", !.dbops = @ + 1])
           /\ urls' = Append(urls, [ID |-> Len(urls) + 1, Code |-> placeholder,
                                    Original |-> job[p].url, Clicks |-> 0])
           /\ UNCHANGED bg

\* Create: code := encoding.Encode(id); UPDATE urls SET code = ? WHERE id = ?
CreateUpdateZeroBased(p) ==
    /\ Step(p, "update", [job[p] EXCEPT !.at = "getByID", !.dbops = @ + 1])
    /\ urls' = [urls EXCEPT ![job[p].id].Code = Encode(job[p].id - 1)]
    /\ UNCHANGED bg
CreateUpdate(p) ==
    /\ Step(p, "update", [job[p] EXCEPT !.at = "getByID", !.dbops = @ + 1])
    /\ urls' = [urls EXCEPT ![job[p].id].Code = Encode(job[p].id)]
    /\ UNCHANGED bg

\* Create: return r.GetByID(id)
CreateGetByID(p) ==
    /\ Step(p, "getByID",
            [job[p] EXCEPT !.out = urls[job[p].id], !.dbops = @ + 1,
                           !.at = IF job[p].op = "Shorten" THEN "respond" ELSE "return"])
    /\ UNCHANGED <<urls, bg>>

\* Shorten: the CreateResponse of the record found or created.
ShortenRespond(p) ==
    /\ Step(p, "respond",
            [job[p] EXCEPT !.resp = [ShortURL |-> BaseURL \o "/" \o job[p].out.Code,
                                     Code |-> job[p].out.Code],
                           !.at = "return"])
    /\ UNCHANGED <<urls, bg>>

\* Resolve and Stats: if code == "" { return ErrNotFound }
CodeCheck(p) ==
    /\ Step(p, "check",
            IF job[p].code = "" THEN [job[p] EXCEPT !.err = "ErrNotFound", !.at = "return"]
            ELSE [job[p] EXCEPT !.at = "getByCode"])
    /\ UNCHANGED <<urls, bg>>

\* r.GetByCode(code): sql.ErrNoRows is ErrNotFound.
GetByCode(p) ==
    /\ \/ /\ RowsByCode(job[p].code) = {}
          /\ Step(p, "getByCode",
                  [job[p] EXCEPT !.err = "ErrNotFound", !.at = "return", !.dbops = @ + 1])
       \/ \E i \in RowsByCode(job[p].code) :
             Step(p, "getByCode",
                  [job[p] EXCEPT !.out = urls[i], !.dbops = @ + 1,
                                 !.at = IF job[p].op = "Resolve" THEN "go" ELSE "return"])
    /\ UNCHANGED <<urls, bg>>

\* Resolve: go func() { _ = s.repo.IncrementClicks(code) }(), and return.
ResolveGoInline(p) ==
    /\ Step(p, "go", [job[p] EXCEPT !.at = "return"])
    /\ urls' = ClicksAdded(job[p].code)
    /\ UNCHANGED bg
ResolveGo(p) ==
    /\ Step(p, "go", [job[p] EXCEPT !.at = "return"])
    /\ bg' = bg (+) SetToBag({job[p].code})
    /\ UNCHANGED urls

\* r.GlobalStats(): SELECT COUNT(*), COALESCE(SUM(clicks), 0) FROM urls.  (The
\* count of today's URLs needs the creation times, which are not modelled.)
GlobalStats(p) ==
    /\ Step(p, "globalStats",
            [job[p] EXCEPT !.stats = [TotalURLs |-> Len(urls),
                                      TotalClicks |-> SumClicks(urls)],
                           !.at = "return", !.dbops = @ + 1])
    /\ UNCHANGED <<urls, bg>>

\* r.IncrementClicks(code): one UPDATE; no row affected is ErrNotFound.
IncrementClicks(p) ==
    /\ Step(p, "increment",
            [job[p] EXCEPT !.err = IF RowsByCode(job[p].code) = {} THEN "ErrNotFound" ELSE "",
                           !.at = "return", !.dbops = @ + 1])
    /\ urls' = ClicksAdded(job[p].code)
    /\ UNCHANGED bg

\* The statements of the repository, each of which the driver may fail.
Statements ==
    {"getByOriginal", "insert", "update", "getByID", "getByCode", "globalStats", "increment"}

\* db.Exec or QueryRow returns an error: nothing is written, the function returns.
StoreFail(p) ==
    /\ job[p].at \in Statements
    /\ Step(p, job[p].at, [job[p] EXCEPT !.err = "driver", !.at = "return", !.dbops = @ + 1])
    /\ UNCHANGED <<urls, bg>>

\* The goroutine Resolve started runs IncrementClicks(code).
BgIncrementClicks(code) ==
    /\ BagIn(code, bg)
    /\ bg' = bg (-) SetToBag({code})
    /\ urls' = ClicksAdded(code)
    /\ UNCHANGED <<job, w, done>>
    /\ AppFrame

\* The goroutine's IncrementClicks fails, and the error is dropped.
BgFail(code) ==
    /\ BagIn(code, bg)
    /\ bg' = bg (-) SetToBag({code})
    /\ UNCHANGED <<urls, job, w, done>>
    /\ AppFrame

\* The handler answers what the service returned.
Reply(p, h, x) ==
    /\ job[p].h = h
    /\ job[p].at = "return"
    /\ job' = [job EXCEPT ![p].at = "replied"]
    /\ w' = [w EXCEPT ![p] = x]
    /\ UNCHANGED <<urls, bg, done>>
    /\ AppFrame

\* CreateShortURL after Shorten returned.
CreateShortURLReply(p) ==
    Reply(p, "CreateShortURL",
          CASE job[p].err = "" ->
                 WriteJSON(w[p], "handler", 201,
                           "{\"short_url\":\"" \o job[p].resp.ShortURL \o "\",\"code\":\""
                               \o job[p].resp.Code \o "\"}\n")
            [] job[p].err = "ErrEmptyURL" ->
                 writeError(w[p], "handler", 400, "url is required")
            [] job[p].err = "ErrMissingScheme" ->
                 writeError(w[p], "handler", 400, "url must have http or https scheme")
            [] job[p].err = "ErrInvalidURL" ->
                 writeError(w[p], "handler", 400, "invalid url")
            [] OTHER ->
                 writeError(w[p], "handler", 500, "failed to create short url"))

\* Redirect after Resolve returned.
RedirectReplyNoNotFound(p) ==
    Reply(p, "Redirect",
          IF job[p].err = ""
            THEN HTTPRedirect(w[p], "handler", job[p].method, job[p].out.Original, 301)
          ELSE writeError(w[p], "handler", 500, "failed to resolve url"))
RedirectReply(p) ==
    Reply(p, "Redirect",
          IF job[p].err = ""
            THEN HTTPRedirect(w[p], "handler", job[p].method, job[p].out.Original, 301)
          ELSE IF job[p].err = "ErrNotFound"
            THEN writeError(w[p], "handler", 404, "short url not found")
          ELSE writeError(w[p], "handler", 500, "failed to resolve url"))

\* GetStats after Stats returned.  (The body leaves out the creation time.)
GetStatsReply(p) ==
    Reply(p, "GetStats",
          IF job[p].err = ""
            THEN WriteJSON(w[p], "handler", 200,
                           "{\"code\":\"" \o job[p].out.Code \o "\",\"original_url\":\""
                               \o Join(job[p].out.Original) \o "\",\"clicks\":"
                               \o Itoa(job[p].out.Clicks) \o "}\n")
          ELSE IF job[p].err = "ErrNotFound"
            THEN writeError(w[p], "handler", 404, "short url not found")
          ELSE writeError(w[p], "handler", 500, "failed to get stats"))

\* The outermost function returns to its caller.
Finish(p) ==
    /\ \/ job[p].h = "" /\ job[p].at = "return"
       \/ job[p].at = "replied"
    /\ done' = Append(done, job[p])
    /\ job' = [job EXCEPT ![p] = NoJob]
    /\ UNCHANGED <<urls, bg, w>>
    /\ AppFrame

\* http.Error(w, error, code), as the ServeMux uses it for a request that no
\* registered pattern matches: plain text, the message and a newline.
HTTPError(x, by, error, code) ==
    Write(WriteHeader(HeaderSet(x, by, "Content-Type", "text/plain; charset=utf-8"),
                      by, code),
          by, error \o "\n")

\* What the ServeMux answers by itself: no pattern matches the path (404), or
\* patterns match the path but none the method (405).
RouterStatuses == {404, 405}
RouterText(status) ==
    IF status = 404 THEN "404 page not found" ELSE "Method Not Allowed"

\* The mux finds no handler for the request and answers it itself.
MuxNoMatch(p, status) ==
    /\ At(p, "mux_run", "mux")
    /\ w' = [w EXCEPT ![p] = HTTPError(@, "mux", RouterText(status), status)]
    /\ pc' = [pc EXCEPT ![p] = "mux_written"]
    /\ UNCHANGED <<limiterVars, ip, now, bsnap, ret, histVars>>
    /\ UNCHANGED <<appVars, mws, handler, cors, counter, depth, req, ctx, logged, decision, trace>>

\* The deployed server with requests for paths and methods that are not routed.
NextRouter ==
    \/ Startup
    \/ \E p \in Procs, r \in {PlainRequest, PreflightRequest} : Arrive(p, r)
    \/ \E p \in Procs : Serve(p)
    \/ \E p \in Procs, status \in MuxStatuses : MuxWrite(p, status)
    \/ \E p \in Procs, status \in RouterStatuses : MuxNoMatch(p, status)

InitRouter == InitWith({""}, {DeployedMiddlewares})

SpecRouter == InitRouter /\ [][NextRouter]_vars

\* ------------------------------------------------------ application specs
URLa == <<"h", "t", "t", "p", "s", ":", "/", "/", "a", ".", "t", "e", "s", "t">>
URLb == <<"H", "T", "T", "P", ":", "/", "/", "B", ".", "t", "e", "s", "t">>
URLe == <<"h", "t", "t", "p", "s", ":", "/", "/", "e", ".", "t", "e", "s", "t", "/", "0xC3", "0xA9">>

\* The texts handed to Shorten.
URLInputs ==
    {<<>>,   \* (empty)
     <<"e", "x", "a", "m", "p", "l", "e", ".", "c", "o", "m">>,   \* example.com
     <<"f", "t", "p", ":", "/", "/", "e", ".", "c">>,   \* ftp://e.c
     <<"h", "t", "t", "p", ":", "/", "/">>,   \* http://
     <<"h", "t", "t", "p", "s", ":", "/", "/", "a", ".", "t", "e", "s", "t">>,   \* https://a.test
     <<"H", "T", "T", "P", ":", "/", "/", "B", ".", "t", "e", "s", "t">>,   \* HTTP://B.test
     <<"h", "t", "t", "p", ":", "e", ".", "c">>,   \* http:e.c
     <<":", "/", "/", "x">>,   \* ://x
     <<"f", "t", "p", ":", "/", "/", "h", "/", "%", "z", "z">>,   \* ftp://h/%zz
     <<"h", "t", "t", "p", ":", "/", "/", "h", "/", "%", "z", "z">>,   \* http://h/%zz
     <<"1", "a", ":", "b">>,   \* 1a:b
     <<"h", "t", "t", "p", ":", "/", "/", "a", " ", "b">>,   \* http://a b
     <<"h", "t", "t", "p", ":", "/", "/", "h", ":", "x">>,   \* http://h:x
     <<"h", "t", "t", "p", ":", "/", "/", "h", "\n">>,   \* http://h\n
     <<"h", "t", "t", "p", "s", ":", "/", "/", "e", ".", "t", "e", "s", "t", "/", "0xC3", "0xA9">>,   \* https://e.test/é
     <<"/", "r", "e", "l", "a", "t", "i", "v", "e">>,   \* /relative
     <<"h", "t", "t", "p", "s", ":", "/", "/", "/", "p", "a", "t", "h">>,   \* https:///path
     <<"h", "t", "t", "p", "s", ":", "/", "/", "h", "#", "%", "z", "z">>}   \* https://h#%zz

\* The codes asked for: none, the codes of the first two rows, and one never given.
CodeInputs == {"", "b", "c", "zz"}

\* The goroutine that calls when calls are sequential.
Caller == "p1"

\* A row as a successful Create left it.
Row(id, original) == [ID |-> id, Code |-> Encode(id), Original |-> original, Clicks |-> 0]

\* The server after run() built it with the default configuration, its table
\* holding one of the contents U.
InitApp(U) ==
    InitAll({""}, {DeployedMiddlewares}, U, {DefaultRateLimit * TokenScale}, {DefaultRateBurst})

\* One caller at a time into the service; the store may fail.
NextService ==
    \/ \E u \in URLInputs : ShortenCall(Caller, u)
    \/ \E c \in CodeInputs : ResolveCall(Caller, c)
    \/ \E c \in CodeInputs : StatsCall(Caller, c)
    \/ GlobalStatsCall(Caller)
    \/ ShortenValidate(Caller)
    \/ ShortenGetByOriginal(Caller)
    \/ CreateInsert(Caller)
    \/ CreateUpdate(Caller)
    \/ CreateGetByID(Caller)
    \/ ShortenRespond(Caller)
    \/ CodeCheck(Caller)
    \/ GetByCode(Caller)
    \/ ResolveGo(Caller)
    \/ GlobalStats(Caller)
    \/ StoreFail(Caller)
    \/ \E c \in CodeInputs : BgIncrementClicks(c)
    \/ \E c \in CodeInputs : BgFail(c)
    \/ Finish(Caller)

InitService == InitApp({<<>>, <<Row(1, URLa)>>})

SpecService == InitService /\ [][NextService]_vars

\* The service with a store that does not fail, and goroutines that get to run.
NextClicks ==
    \/ \E u \in {<<>>, URLa, URLb} : ShortenCall(Caller, u)
    \/ \E c \in CodeInputs : ResolveCall(Caller, c)
    \/ \E c \in CodeInputs : StatsCall(Caller, c)
    \/ GlobalStatsCall(Caller)
    \/ ShortenValidate(Caller)
    \/ ShortenGetByOriginal(Caller)
    \/ CreateInsert(Caller)
    \/ CreateUpdate(Caller)
    \/ CreateGetByID(Caller)
    \/ ShortenRespond(Caller)
    \/ CodeCheck(Caller)
    \/ GetByCode(Caller)
    \/ ResolveGo(Caller)
    \/ GlobalStats(Caller)
    \/ \E c \in CodeInputs : BgIncrementClicks(c)
    \/ Finish(Caller)

InitClicks == InitApp({<<>>, <<Row(1, URLa)>>, <<Row(1, URLa), Row(2, URLb)>>})

SpecClicks ==
    InitClicks /\ [][NextClicks]_vars /\ \A c \in CodeInputs : WF_vars(BgIncrementClicks(c))

\* Goroutines that call the repository directly, as its tests do.
NextRepo ==
    \/ \E p \in Procs, original \in {URLa, URLb} : CreateCall(p, original)
    \/ \E p \in Procs, c \in CodeInputs : IncrementClicksCall(p, c)
    \/ \E p \in Procs, c \in CodeInputs : GetByCodeCall(p, c)
    \/ \E p \in Procs : CreateInsert(p)
    \/ \E p \in Procs : CreateUpdate(p)
    \/ \E p \in Procs : CreateGetByID(p)
    \/ \E p \in Procs : GetByCode(p)
    \/ \E p \in Procs : IncrementClicks(p)
    \/ \E p \in Procs : StoreFail(p)
    \/ \E p \in Procs : Finish(p)

InitRepo == InitApp({<<>>, <<Row(1, URLa)>>, <<Row(1, URLa), Row(2, URLb)>>})

SpecRepo == InitRepo /\ [][NextRepo]_vars

\* Goroutines that call Shorten at the same time, as two requests to
\* POST /api/shorten do; the store does not fail.
NextShorten ==
    \/ \E p \in Procs, u \in {URLa, URLb} : ShortenCall(p, u)
    \/ \E p \in Procs : ShortenValidate(p)
    \/ \E p \in Procs : ShortenGetByOriginal(p)
    \/ \E p \in Procs : CreateInsert(p)
    \/ \E p \in Procs : CreateUpdate(p)
    \/ \E p \in Procs : CreateGetByID(p)
    \/ \E p \in Procs : ShortenRespond(p)
    \/ \E p \in Procs : Finish(p)

InitShorten == InitApp({<<>>, <<Row(1, URLb)>>})

SpecShorten == InitShorten /\ [][NextShorten]_vars

\* Goroutines that call Create while others read the table, statement by
\* statement; the store does not fail.
NextCreate ==
    \/ \E p \in Procs, original \in {URLa, URLb} : CreateCall(p, original)
    \/ \E p \in Procs, c \in {placeholder, "b"} : GetByCodeCall(p, c)
    \/ \E p \in Procs : GlobalStatsCall(p)
    \/ \E p \in Procs : CreateInsert(p)
    \/ \E p \in Procs : CreateUpdate(p)
    \/ \E p \in Procs : CreateGetByID(p)
    \/ \E p \in Procs : GetByCode(p)
    \/ \E p \in Procs : GlobalStats(p)
    \/ \E p \in Procs : Finish(p)

InitCreate == InitApp({<<>>, <<Row(1, URLa)>>})

SpecCreate == InitCreate /\ [][NextCreate]_vars

\* Requests handed to the handlers one at a time, as the handler tests do.
NextHandlers ==
    \/ \E method \in {"POST", "GET"}, u \in {<<>>, <<"e", ".", "c">>, <<"h", "t", "t", "p", ":", "/", "/">>, URLa, URLe} :
          CreateShortURL(Caller, method, TRUE, u)
    \/ CreateShortURL(Caller, "POST", FALSE, <<>>)
    \/ \E c \in CodeInputs : Redirect(Caller, c)
    \/ \E c \in CodeInputs : GetStats(Caller, c)
    \/ ShortenValidate(Caller)
    \/ ShortenGetByOriginal(Caller)
    \/ CreateInsert(Caller)
    \/ CreateUpdate(Caller)
    \/ CreateGetByID(Caller)
    \/ ShortenRespond(Caller)
    \/ CodeCheck(Caller)
    \/ GetByCode(Caller)
    \/ ResolveGo(Caller)
    \/ StoreFail(Caller)
    \/ \E c \in CodeInputs : BgIncrementClicks(c)
    \/ \E c \in CodeInputs : BgFail(c)
    \/ CreateShortURLReply(Caller)
    \/ RedirectReply(Caller)
    \/ GetStatsReply(Caller)
    \/ Finish(Caller)

InitHandlers == InitApp({<<>>, <<Row(1, URLe)>>})

SpecHandlers == InitHandlers /\ [][NextHandlers]_vars

\* What PORT, RATE_LIMIT and RATE_BURST are set to; the empty text is "not set".
PortTexts ==
    {<<>>,
     <<"4", "4", "3">>,
     <<"6", "5", "5", "3", "5">>,
     <<"0">>,
     <<"6", "5", "5", "3", "6">>,
     <<"-", "1">>,
     <<"h", "t", "t", "p">>}
RateLimitTexts ==
    {<<>>,
     <<"1">>,
     <<"2", ".", "0">>,
     <<"0">>,
     <<"0", ".", "0">>,
     <<"-", "0", ".", "5">>,
     <<"-", "1">>,
     <<"a", "b", "c">>,
     <<"1", "x">>}
RateBurstTexts ==
    {<<>>,
     <<"1">>,
     <<"+", "2">>,
     <<"0">>,
     <<"-", "3">>,
     <<"1", ".", "5">>,
     <<"x">>}

\* The process starts with its environment.
Exec(e) ==
    /\ run = "unstarted"
    /\ env' = e
    /\ run' = "exec"
    /\ UNCHANGED <<limiterVars, callVars, histVars, pipeVars, cfg, urls, job, bg, done>>

\* run(): cfg, err := config.Load()
RunLoad ==
    /\ run = "exec"
    /\ cfg' = Load(env)
    /\ run' = "loaded"
    /\ UNCHANGED <<limiterVars, callVars, histVars, pipeVars, env, urls, job, bg, done>>

\* run(): if err != nil { return err }
RunReturnErr ==
    /\ run = "loaded"
    /\ cfg.err # ""
    /\ run' = "returned"
    /\ UNCHANGED <<limiterVars, callVars, histVars, pipeVars, env, cfg, urls, job, bg, done>>

\* run(): middleware.NewRateLimiter(cfg.RateLimit, cfg.RateBurst), and on to
\* srv.ListenAndServe().  The limiter's rate is in units per tick.
RunServe ==
    /\ run = "loaded"
    /\ cfg.err = ""
    /\ rate' = (cfg.RateLimit.num * TokenScale) \div cfg.RateLimit.den
    /\ burst' = cfg.RateBurst
    /\ buckets' = [i \in Keys |-> NoBucket]
    /\ mu' = ""
    /\ run' = "serving"
    /\ UNCHANGED <<clock, callVars, histVars, pipeVars, env, cfg, urls, job, bg, done>>

\* The process from its start: the limiter exists once run() has built it, and
\* requests reach it only while the server serves.
NextConfig ==
    \/ \E port \in PortTexts, rateLimit \in RateLimitTexts, rateBurst \in RateBurstTexts :
          Exec([PORT |-> port, RATE_LIMIT |-> rateLimit, RATE_BURST |-> rateBurst])
    \/ RunLoad
    \/ RunReturnErr
    \/ RunServe
    \/ \E i \in IPs : run = "serving" /\ DirectCall(Caller, i)
    \/ Allow(Caller)
    \/ DirectReturn(Caller)

InitConfig == InitAll({""}, {DeployedMiddlewares}, {<<>>}, {0}, {0})

SpecConfig == InitConfig /\ [][NextConfig]_vars

\* ------------------------------------------------------------ base62 spec
\* The integers handed to Encode: negative ones, the first few, and those around
\* the powers of 62 up to the largest the checker's integers hold.
EncodeInputs ==
    (-3..MaxSmall) \cup {61, 62, 63, 3843, 3844, 3845, 238327, 238328, 14776335, 14776336,
                        916132831, 916132832, 2147483647}

\* The texts handed to Decode besides what Encode returned.
DecodeInputs ==
    {<<>>,
     <<"a">>,
     <<"b">>,
     <<"b", "a">>,
     <<"9">>,
     <<"9", "9", "9", "9", "9">>,
     <<"a", "-", "b">>,
     <<"_">>,
     <<"b", " ", "c">>,
     <<"0xC3", "0xA9">>,
     <<"a", "b", "!">>,
     <<"A", "0", "z">>}

\* A call of encoding.Encode(n).
EncodeCall(n) ==
    /\ Len(done) < MaxCalls
    /\ done' = Append(done, [op |-> "Encode", n |-> n, code |-> EncodeText(n), err |-> ""])
    /\ UNCHANGED <<limiterVars, callVars, histVars, pipeVars, env, cfg, run, urls, job, bg>>

\* A call of encoding.Decode(code), code being any of the texts or what an earlier
\* Encode returned.
DecodeCall(code) ==
    /\ Len(done) < MaxCalls
    /\ done' = Append(done, [op |-> "Decode", n |-> Decode(code).value, code |-> code,
                             err |-> Decode(code).err])
    /\ UNCHANGED <<limiterVars, callVars, histVars, pipeVars, env, cfg, run, urls, job, bg>>

NextBase62 ==
    \/ \E n \in EncodeInputs : EncodeCall(n)
    \/ \E code \in DecodeInputs \cup {done[k].code : k \in 1..Len(done)} : DecodeCall(code)

InitBase62 == InitApp({<<>>})

SpecBase62 == InitBase62 /\ [][NextBase62]_vars

\* ------------------------------------------------------------------ claims
\* The reference token-bucket step of the limiter's contract: what one call made
\* at time t does to the bucket b it finds, and what it answers.
RefRefilled(b, t) == Min(burst * TokenScale, b.tokens + (t - b.lastRefill) * rate)

RefBucket(b, t) ==
    IF ~b.exists
      THEN [exists |-> TRUE, tokens |-> (burst - 1) * TokenScale, lastRefill |-> t]
      ELSE [exists |-> TRUE,
            tokens |-> IF RefRefilled(b, t) >= TokenScale
                         THEN RefRefilled(b, t) - TokenScale
                         ELSE RefRefilled(b, t),
            lastRefill |-> t]

RefOK(b, t) == ~b.exists \/ RefRefilled(b, t) >= TokenScale

\* A goroutine between rl.mu.Lock() and the deferred rl.mu.Unlock().
InAllowBody(p) ==
    pc[p] \in {"allow_lookup", "allow_create", "allow_refill", "allow_cap",
               "allow_check", "allow_dec", "allow_unlock"}

\* C1: when a call of Allow(id) is about to return, the bucket of id and the
\* answer are those of the reference step applied to the bucket the call found
\* and the time it read: a new bucket holds burst - 1 tokens stamped now and the
\* answer is true; an existing one is refilled by elapsed * rate up to burst,
\* stamped now, and charged one token exactly when it holds at least one.
C1_AllowMatchesReference ==
    \A p \in Procs :
        pc[p] = "allow_unlock" =>
            /\ buckets[ip[p]] = RefBucket(bsnap[p], now[p])
            /\ ret[p] = RefOK(bsnap[p], now[p])

\* A call that refilled a fraction of a token and was denied without a charge.
C1_Witness ==
    \E p \in Procs :
        /\ pc[p] = "allow_unlock"
        /\ bsnap[p].exists
        /\ ~ret[p]
        /\ buckets[ip[p]].tokens > bsnap[p].tokens
        /\ buckets[ip[p]].tokens > 0

\* The logged calls k..n were all made at the time of call k.
SameNow(k, n) == \A m \in k..n : log[m].now = log[k].now

\* Call k opens a run of calls made at one time.
FirstOfRun(k) == k = 1 \/ log[k - 1].now # log[k].now

\* How many of the logged calls k..n were allowed.
Allowed(k, n) == Cardinality({m \in k..n : log[m].ok})

\* C2: token conservation.  For a fresh identity, of the first burst + 1 calls
\* made with no time elapsing the first burst are allowed and the next is denied;
\* a call made 1/rate later (elapsed * rate = one token) is allowed, and a call
\* made at that same time right after it is denied.
C2_TokenConservation ==
    \A n \in 1..Len(log) :
        /\ (n <= burst + 1 /\ SameNow(1, n)) => (log[n].ok <=> n <= burst)
        /\ (/\ n = burst + 2
            /\ SameNow(1, burst + 1)
            /\ (log[n].now - log[1].now) * rate = TokenScale) => log[n].ok
        /\ (/\ n = burst + 3
            /\ SameNow(1, burst + 1)
            /\ (log[burst + 2].now - log[1].now) * rate = TokenScale
            /\ log[n].now = log[burst + 2].now) => ~log[n].ok

\* The whole scenario for a burst of two or more: burst calls allowed, one denied,
\* one allowed after 1/rate, one denied right after it.
C2_Witness ==
    /\ burst >= 2
    /\ Len(log) >= burst + 3
    /\ SameNow(1, burst + 1)
    /\ (log[burst + 2].now - log[1].now) * rate = TokenScale
    /\ log[burst + 3].now = log[burst + 2].now
    /\ log[burst + 2].ok
    /\ ~log[burst + 3].ok

\* C3: no double-spend.  Of N calls for one identity made with no time elapsing,
\* the first of which finds T tokens available (burst for a fresh identity),
\* exactly min(N, floor(T)) are allowed, however the calls interleave; and at
\* most one goroutine at a time is inside the lookup-refill-check-decrement
\* sequence.
C3_NoDoubleSpend ==
    /\ \A k \in 1..Len(log) :
           FirstOfRun(k) =>
               \A n \in k..Len(log) :
                   SameNow(k, n) =>
                       Allowed(k, n) = Min(n - k + 1, log[k].avail \div TokenScale)
    /\ \A p, q \in Procs : (p # q /\ InAllowBody(p)) => ~InAllowBody(q)

\* Two whole tokens, three calls at one time, the third denied, while one
\* goroutine holds the mutex and another waits for it.
C3_Witness ==
    /\ Len(log) >= 3
    /\ SameNow(1, 3)
    /\ log[1].avail = 2 * TokenScale
    /\ Allowed(1, 3) = 2
    /\ \E p, q \in Procs : p # q /\ pc[p] = "allow_lock" /\ mu = q /\ ip[p] = ip[q]

\* A step changes the bucket of identity i only as part of a call Allow(i), made
\* by the goroutine holding the mutex.
IsolationStep ==
    \A i \in IPs :
        buckets'[i] # buckets[i] =>
            \E p \in Procs : mu = p /\ ip[p] = i /\ InAllowBody(p)

\* C4: isolation.  A call Allow(a) leaves the bucket (or the absence of a
\* bucket) of every other identity as it is, and the first call of a fresh
\* identity is allowed whatever happened to the other identities.
C4_Isolation ==
    /\ [][IsolationStep]_vars
    /\ [](\A p \in Procs : (pc[p] = "allow_unlock" /\ ~bsnap[p].exists) => ret[p])

\* One identity has just been denied while a fresh one is being allowed.
C4_Witness ==
    \E p, q \in Procs :
        /\ pc[p] = "allow_unlock" /\ ~bsnap[p].exists /\ ret[p]
        /\ pc[q] = "allow_ret" /\ ~ret[q] /\ ip[q] # ip[p]
        /\ buckets[ip[q]].exists /\ buckets[ip[q]].tokens < TokenScale

\* C5: burst cap.  Between calls every bucket holds between 0 and burst
\* tokens; so after an idle period long enough to refill a drained bucket
\* completely, exactly burst calls made at one time are allowed and the next
\* ones are denied.
C5_BurstCap ==
    /\ \A i \in IPs :
           (buckets[i].exists /\ ~(\E p \in Procs : InAllowBody(p) /\ ip[p] = i)) =>
               (0 <= buckets[i].tokens /\ buckets[i].tokens <= burst * TokenScale)
    /\ \A k \in 2..Len(log) :
           (/\ FirstOfRun(k)
            /\ (log[k].now - log[k - 1].now) * rate >= burst * TokenScale) =>
               \A n \in k..Len(log) :
                   SameNow(k, n) => (log[n].ok <=> n - k + 1 <= burst)

\* A bucket drained below burst, idle long enough to refill more than it lacks,
\* then burst calls allowed at one time and one more denied.
C5_Witness ==
    \E k \in 2..Len(log) :
        /\ burst >= 2
        /\ FirstOfRun(k)
        /\ (log[k].now - log[k - 1].now) * rate > burst * TokenScale
        /\ Len(log) >= k + burst
        /\ SameNow(k, k + burst)
        /\ ~log[k + burst].ok

\* A step never removes a bucket, and stores one for identity i only in a call
\* Allow(i) that found none, seeded with burst - 1 tokens.
RegistryStep ==
    \A i \in IPs :
        /\ buckets[i].exists => buckets'[i].exists
        /\ (~buckets[i].exists /\ buckets'[i].exists) =>
               \E p \in Procs :
                   /\ mu = p /\ ip[p] = i /\ pc[p] = "allow_create" /\ ~bsnap[p].exists
                   /\ buckets'[i].tokens = (burst - 1) * TokenScale

\* C6: limiter registry.  Each identity has at most one bucket, stored exactly
\* once, by the first call for it, also when first calls for it run
\* concurrently; no step removes a bucket.
C6_Registry ==
    /\ [](\A i \in IPs : created[i] <= 1 /\ (buckets[i].exists <=> created[i] = 1))
    /\ [][RegistryStep]_vars

\* A first call has stored the bucket while a concurrent call for the same
\* identity waits for the mutex.
C6_Witness ==
    \E p, q \in Procs :
        /\ p # q
        /\ pc[p] = "allow_unlock" /\ ~bsnap[p].exists
        /\ pc[q] = "allow_lock" /\ ip[q] = ip[p]
        /\ created[ip[p]] = 1

\* The stages request p entered, and those it left, in order.
StagesOf(p, kind) ==
    LET es == SelectSeq(trace[p], LAMBDA e : e[1] = kind)
    IN [k \in 1..Len(es) |-> es[k][2]]

EnterSeq(p) == StagesOf(p, "enter")
ExitSeq(p) == StagesOf(p, "exit")

IsPrefix(a, b) == Len(a) <= Len(b) /\ \A k \in 1..Len(a) : a[k] = b[k]

Occurs(x, seq) == \E k \in 1..Len(seq) : seq[k] = x

\* Every stage is entered before any is left, and the stages are left in the
\* reverse of the order they were entered in.
Nested(p) ==
    LET en == EnterSeq(p)
        ex == ExitSeq(p)
    IN /\ Len(ex) <= Len(en)
       /\ \A k \in 1..Len(trace[p]) : trace[p][k][1] = "enter" <=> k <= Len(en)
       /\ \A k \in 1..Len(ex) : ex[k] = en[Len(en) - k + 1]

Finished(p) == pc[p] \in {"done", "aborted"}

Preflight(r) == r.method = "OPTIONS" /\ r.origin # ""

\* C7: admission middleware.  A request Allow denied gets status 429, the
\* Retry-After header and the body {"error":"rate limit exceeded","code":429},
\* and the handler below is not invoked; for a request Allow admitted the
\* middleware makes no call on the response and the handler below is invoked
\* once.
C7_Admission ==
    \A p \in Procs :
        /\ decision[p] = "denied" =>
               /\ w[p].status = 429
               /\ w[p].sent["Retry-After"] # ""
               /\ w[p].body = <<"{\"error\":\"rate limit exceeded\",\"code\":429}">>
               /\ ~Occurs("mux", EnterSeq(p))
        /\ decision[p] = "allowed" =>
               /\ \A k \in 1..Len(w[p].calls) : w[p].calls[k].by # "RateLimit"
               /\ Len(SelectSeq(EnterSeq(p), LAMBDA st : st = "mux")) <= 1
               /\ Finished(p) => Occurs("mux", EnterSeq(p))

\* One request was rejected and another, admitted, was served by the mux.
C7_Witness ==
    \E p, q \in Procs :
        /\ pc[p] = "done" /\ decision[p] = "denied"
        /\ pc[q] = "done" /\ decision[q] = "allowed" /\ w[q].status = 200

\* C8: locking discipline.  The bucket map changes only in a step of the
\* goroutine holding the mutex, inside Allow; a goroutine holds the mutex only
\* between Lock and the deferred Unlock of Allow, so never in the handler
\* below, while writing the 429 response, while a panic unwinds, or after its
\* request is finished.
C8_LockingDiscipline ==
    /\ [](\A p \in Procs : mu = p => InAllowBody(p))
    /\ [][buckets' # buckets => (mu \in Procs /\ InAllowBody(mu))]_vars

\* A request whose handler panicked has been answered, and a later request
\* holds the mutex inside Allow.
C8_Witness ==
    \E p, q \in Procs :
        /\ pc[p] = "done"
        /\ \E k \in 1..Len(logged[p]) : logged[p][k].kind = "PANIC"
        /\ decision[p] = "allowed"
        /\ mu = q /\ pc[q] = "allow_check"

\* The order of the stages of the deployed pipeline.
DeployedOrder == <<"RequestID", "Logging", "Recovery", "CORS", "RateLimit", "mux">>

\* C9: deployed pipeline order.  A request enters the stages in the order
\* RequestID, Logging, Recovery, CORS, RateLimit, mux, each at most once, and
\* leaves them in the reverse order; a preflight answered by CORS enters neither
\* RateLimit nor the mux, a request answered 429 does not enter the mux, and any
\* other request runs through all six.
C9_PipelineOrder ==
    \A p \in Procs :
        /\ IsPrefix(EnterSeq(p), DeployedOrder)
        /\ Nested(p)
        /\ Finished(p) => Len(ExitSeq(p)) = Len(EnterSeq(p))
        /\ Preflight(req[p]) =>
               ~Occurs("RateLimit", EnterSeq(p)) /\ ~Occurs("mux", EnterSeq(p))
        /\ decision[p] = "denied" => ~Occurs("mux", EnterSeq(p))
        /\ (Finished(p) /\ ~Preflight(req[p]) /\ decision[p] # "denied") =>
               EnterSeq(p) = DeployedOrder

\* One request ran through all six stages and back, another was stopped by the
\* CORS filter, and both are finished.
C9_Witness ==
    \E p, q \in Procs :
        /\ pc[p] = "done" /\ EnterSeq(p) = DeployedOrder /\ Len(ExitSeq(p)) = 6
        /\ pc[q] = "done" /\ Preflight(req[q]) /\ Len(EnterSeq(q)) = 4

\* s1(s2(...sN(h)...)), built from the first stage inwards.
RECURSIVE NestedApply(_, _)
NestedApply(stages, h) ==
    IF stages = <<>> THEN h ELSE <<Head(stages)>> \o NestedApply(Tail(stages), h)

\* C10: chain composition.  Chain(s1, ..., sN)(h) is s1(s2(...sN(h)...)), and h
\* itself for N = 0: a request enters s1 first, enters the stages in the order
\* listed, reaches h only through sN, and leaves s1 last.
C10_ChainComposition ==
    /\ handler # <<>> =>
           /\ handler = NestedApply(mws, Terminal)
           /\ mws = <<>> => handler = Terminal
    /\ \A p \in Procs :
           /\ IsPrefix(EnterSeq(p), mws \o Terminal)
           /\ Nested(p)
           /\ Finished(p) =>
                  /\ Len(ExitSeq(p)) = Len(EnterSeq(p))
                  /\ trace[p][1] = <<"enter", (mws \o Terminal)[1]>>
                  /\ trace[p][Len(trace[p])] = <<"exit", (mws \o Terminal)[1]>>

\* A request went through two different stages, in the order listed, to the
\* terminal handler and back.
C10_Witness ==
    /\ Len(mws) = 2
    /\ mws[1] # mws[2]
    /\ pc["p1"] = "done"
    /\ EnterSeq("p1") = mws \o Terminal
    /\ ExitSeq("p1") = <<"mux", mws[2], mws[1]>>

\* The X-Request-ID the response of request p carries.
IdOf(p) == w[p].hdr["X-Request-ID"]

\* The Identity Tagger has handled request p.
Tagged(p) == Occurs("RequestID", EnterSeq(p))

\* C11: Identity Tagger.  A non-empty inbound X-Request-ID is used as it is,
\* otherwise an id is made from the counter; the id is the X-Request-ID of the
\* response and what GetRequestID returns in every stage below the tagger, and
\* once chosen it does not change while the request is served.
C11_IdentityTagger ==
    /\ [](\A p \in Procs : Tagged(p) =>
            /\ req[p].xrid # "" => IdOf(p) = req[p].xrid
            /\ req[p].xrid = "" =>
                   /\ IdOf(p) # ""
                   /\ \E n \in 1..counter : IdOf(p) = Encode(n)
            /\ ~Occurs("RequestID", ExitSeq(p)) => GetRequestID(p) = IdOf(p))
    /\ [][\A p \in Procs : Tagged(p) =>
            /\ w'[p].hdr["X-Request-ID"] = IdOf(p)
            /\ ~Occurs("RequestID", ExitSeq(p))' => GetRequestID(p)' = GetRequestID(p)]_vars

\* One finished request kept the id its client sent, another got a synthesized one.
C11_Witness ==
    \E p, q \in Procs :
        /\ pc[p] = "done" /\ req[p].xrid = "client-1" /\ w[p].sent["X-Request-ID"] = "client-1"
        /\ pc[q] = "done" /\ req[q].xrid = "" /\ w[q].sent["X-Request-ID"] = "b"

\* How many counter values the injectivity of Encode is checked for.
MaxID == 4000

\* Encode maps the integers 1..MaxID to MaxID different strings.
EncodeInjective == Cardinality({Encode(n) : n \in 1..MaxID}) = MaxID

\* The requests without inbound X-Request-ID the tagger has handled.
Synthesized == {p \in Procs : Tagged(p) /\ req[p].xrid = ""}

\* C12: synthesized-id uniqueness.  Every request without inbound X-Request-ID
\* takes its own value of the counter, Encode maps different positive integers
\* to different strings, and so two such requests never carry the same id,
\* however they interleave.
C12_SynthesizedUnique ==
    /\ EncodeInjective
    /\ Cardinality(Synthesized) = counter
    /\ Cardinality({IdOf(p) : p \in Synthesized}) = Cardinality(Synthesized)
    /\ \A p, q \in Synthesized : p # q => IdOf(p) # IdOf(q)

\* Two concurrent requests, both without an inbound id, both past the tagger
\* before either is finished.
C12_Witness ==
    /\ Synthesized = Procs
    /\ \A p \in Procs : pc[p] = "enter" /\ depth[p] = 2
    /\ IdOf("p1") # IdOf("p2")

\* The calls on the response of p that set its X-Request-ID header, and those
\* that write a status or body, by their position in the history of calls.
IdSetters(p) ==
    {k \in 1..Len(w[p].calls) :
        w[p].calls[k].op = "Header.Set" /\ w[p].calls[k].key = "X-Request-ID"}

StatusWriters(p) ==
    {k \in 1..Len(w[p].calls) : w[p].calls[k].op \in {"WriteHeader", "Write"}}

\* C13: every response of the deployed pipeline carries X-Request-ID: the
\* header is set once, by the Identity Tagger, before any status is written, and
\* is among the headers sent with the status, whether the response is a normal
\* one, a 429, a 204 preflight answer or the 500 of a recovered panic.
C13_EveryResponseTagged ==
    \A p \in Procs :
        /\ Cardinality(IdSetters(p)) <= 1
        /\ \A k \in IdSetters(p) :
               /\ w[p].calls[k].by = "RequestID"
               /\ \A j \in StatusWriters(p) : k < j
        /\ w[p].status # 0 =>
               /\ Cardinality(IdSetters(p)) = 1
               /\ w[p].sent["X-Request-ID"] # ""
               /\ w[p].sent["X-Request-ID"] = IdOf(p)
        /\ Finished(p) => w[p].status \in {200, 404, 429, 204, 500}

\* A rejected request and one whose handler panicked have both been answered.
C13_Witness ==
    \E p, q \in Procs :
        /\ pc[p] = "done" /\ w[p].status = 429 /\ w[p].sent["X-Request-ID"] # ""
        /\ pc[q] = "done" /\ w[q].status = 500 /\ w[q].sent["X-Request-ID"] # ""

\* C14: correlation propagation.  The id in every line logged for a request,
\* the request line and the PANIC line, is the X-Request-ID of that request's
\* response, for ids sent by the client and for synthesized ones; a request
\* never logs the id of a concurrent request.
C14_CorrelationPropagation ==
    \A p \in Procs : \A k \in 1..Len(logged[p]) :
        /\ logged[p][k].id # ""
        /\ logged[p][k].id = IdOf(p)
        /\ w[p].status # 0 => logged[p][k].id = w[p].sent["X-Request-ID"]
        /\ req[p].xrid # "" => logged[p][k].id = req[p].xrid
        /\ \A q \in Synthesized \ {p} : p \in Synthesized => logged[p][k].id # IdOf(q)

\* A request with a client's id panicked and was logged twice; a concurrent
\* request with a synthesized id was logged as well.
C14_Witness ==
    \E p, q \in Procs :
        /\ req[p].xrid = "client-1" /\ pc[p] = "done"
        /\ Len(logged[p]) = 2 /\ logged[p][1].kind = "PANIC" /\ logged[p][2].kind = "request"
        /\ req[q].xrid = "" /\ pc[q] = "done"
        /\ Len(logged[q]) = 1 /\ logged[q][1].id = "b"

\* The Fault Barrier recovered a panic of request p: it made calls on the response.
Recovered(p) == \E k \in 1..Len(w[p].calls) : w[p].calls[k].by = "Recovery"

PanicLines(p) == SelectSeq(logged[p], LAMBDA l : l.kind = "PANIC")
RequestLines(p) == SelectSeq(logged[p], LAMBDA l : l.kind = "request")

\* C15: fault isolation.  When a stage inside the Fault Barrier panics, whatever
\* it had written before, the panic is intercepted once and goes no further
\* out, and the client receives one response with status 500 and the body
\* {"error":"internal server error","code":500}.
C15_FaultIsolation ==
    \A p \in Procs :
        /\ pc[p] # "aborted"
        /\ pc[p] = "panic" => \E k \in 1..depth[p] : handler[k] = "Recovery"
        /\ Recovered(p) =>
               /\ Len(PanicLines(p)) = 1
               /\ w[p].status = 500
               /\ w[p].body = <<"{\"error\":\"internal server error\",\"code\":500}">>

\* C16: logged status is the actual status.  The status in the log line of a
\* request is the status sent to the client: the code of the first status-setting
\* call, which a later WriteHeader on the same response does not change.
C16_LoggedStatusIsActual ==
    \A p \in Procs : \A k \in 1..Len(logged[p]) :
        logged[p][k].kind = "request" => logged[p][k].status = w[p].status

\* Every stage request p entered after Logging has been left again.
WrappedReturned(p) ==
    \A k \in 1..Len(EnterSeq(p)) :
        EnterSeq(p)[k] \notin {"RequestID", "Logging"} => Occurs(EnterSeq(p)[k], ExitSeq(p))

\* C17: one log line per request of the deployed pipeline, printed only after
\* all the stages Logging wraps have returned: for requests answered by the
\* mux, rejected with 429, answered as preflight, and requests whose panic was
\* recovered.
C17_OneLogLine ==
    \A p \in Procs :
        /\ Len(RequestLines(p)) <= 1
        /\ Len(RequestLines(p)) = 1 <=> Occurs("Logging", ExitSeq(p))
        /\ Len(RequestLines(p)) = 1 => WrappedReturned(p)
        /\ Finished(p) => Len(RequestLines(p)) = 1 /\ pc[p] = "done"

\* A request whose panic was recovered and a preflight have each been logged once.
C17_Witness ==
    \E p, q \in Procs :
        /\ pc[p] = "done" /\ Recovered(p) /\ Len(RequestLines(p)) = 1
        /\ pc[q] = "done" /\ w[q].status = 204 /\ Len(RequestLines(q)) = 1

\* The allow-list holds the origin itself or the wildcard.
InAllowList(list, origin) == \E k \in DOMAIN list : list[k] \in {"*", origin}

CORSHeaderNames ==
    {"Access-Control-Allow-Origin", "Access-Control-Allow-Methods",
     "Access-Control-Allow-Headers", "Access-Control-Max-Age"}

\* The CORS filter has handled request p.
PastCORS(p) == Occurs("CORS", EnterSeq(p))

\* C18: CORS preflight short-circuit.  An OPTIONS request with an allowed Origin
\* reaches no stage after the CORS filter, neither the rate limiter nor the mux,
\* and is answered 204 with an empty body.
C18_PreflightShortCircuit ==
    \A p \in Procs :
        (Preflight(req[p]) /\ InAllowList(cors.AllowedOrigins, req[p].origin)) =>
            /\ ~Occurs("RateLimit", EnterSeq(p))
            /\ ~Occurs("mux", EnterSeq(p))
            /\ decision[p] = "none"
            /\ \A k \in 1..Len(w[p].calls) : w[p].calls[k].by \notin {"RateLimit", "mux"}
            /\ PastCORS(p) => w[p].status = 204 /\ w[p].body = <<>>
            /\ Finished(p) => PastCORS(p) /\ pc[p] = "done"

\* A preflight from the one origin on the allow-list has been answered.
C18_Witness ==
    /\ cors.AllowedOrigins = <<"https://app.test">>
    /\ req["p1"].method = "OPTIONS" /\ req["p1"].origin = "https://app.test"
    /\ pc["p1"] = "done"
    /\ w["p1"].status = 204
    /\ EnterSeq("p1") = <<"RequestID", "Logging", "Recovery", "CORS">>

\* C19 as stated: every preflight, whatever its origin, is answered 204, no
\* body, with the four CORS headers.
C19_PreflightAlwaysAnnotated ==
    \A p \in Procs :
        (Preflight(req[p]) /\ Finished(p)) =>
            /\ w[p].status = 204
            /\ w[p].body = <<>>
            /\ \A h \in CORSHeaderNames : w[p].sent[h] # ""

\* C19, amended: every preflight (OPTIONS with a non-empty Origin) is answered
\* 204 with no body; the response carries the four CORS headers when the origin
\* is on the allow-list or the list holds the wildcard, and none of them
\* otherwise.
C19_PreflightAnswer ==
    \A p \in Procs :
        (Preflight(req[p]) /\ PastCORS(p)) =>
            /\ w[p].status = 204
            /\ w[p].body = <<>>
            /\ IF InAllowList(cors.AllowedOrigins, req[p].origin)
                 THEN \A h \in CORSHeaderNames : w[p].sent[h] # ""
                 ELSE \A h \in CORSHeaderNames : w[p].sent[h] = ""

\* A preflight from an origin that is not on the allow-list has been answered.
C19_Witness ==
    /\ cors.AllowedOrigins = <<"https://app.test">>
    /\ req["p1"].method = "OPTIONS" /\ req["p1"].origin = "https://evil.test"
    /\ pc["p1"] = "done"
    /\ w["p1"].status = 204
    /\ w["p1"].sent["Access-Control-Allow-Origin"] = ""

\* C20: CORS annotation.  For a request with a non-empty Origin the four CORS
\* headers are attached exactly when the allow-list holds that origin or the
\* wildcard; Access-Control-Allow-Origin is then the request's origin, also
\* under the wildcard, and the other three are the configured methods, headers
\* and max-age.
C20_CORSAnnotation ==
    \A p \in Procs :
        (req[p].origin # "" /\ PastCORS(p)) =>
            IF InAllowList(cors.AllowedOrigins, req[p].origin)
              THEN /\ w[p].hdr["Access-Control-Allow-Origin"] = req[p].origin
                   /\ w[p].hdr["Access-Control-Allow-Methods"] = "GET, POST, OPTIONS"
                   /\ w[p].hdr["Access-Control-Allow-Headers"] = "Content-Type, X-Request-ID"
                   /\ w[p].hdr["Access-Control-Max-Age"] = "86400"
                   /\ w[p].status # 0 => \A h \in CORSHeaderNames : w[p].sent[h] = w[p].hdr[h]
              ELSE \A h \in CORSHeaderNames : w[p].hdr[h] = "" /\ w[p].sent[h] = ""

\* Under the wildcard, a request from some origin was served with that origin
\* echoed back.
C20_Witness ==
    /\ cors.AllowedOrigins = <<"*">>
    /\ req["p1"].method = "GET" /\ req["p1"].origin = "https://evil.test"
    /\ pc["p1"] = "done"
    /\ w["p1"].status = 200
    /\ w["p1"].sent["Access-Control-Allow-Origin"] = "https://evil.test"

\* C21: a request without Origin passes the CORS filter untouched, whatever its
\* method, OPTIONS included: the filter sets no header and writes no status, and
\* hands the same request to the next stage, once.
C21_NoOriginBypass ==
    /\ [](\A p \in Procs : (req[p].origin = "" /\ PastCORS(p)) =>
            /\ \A k \in 1..Len(w[p].calls) : w[p].calls[k].by # "CORS"
            /\ \A h \in CORSHeaderNames : w[p].hdr[h] = "" /\ w[p].sent[h] = ""
            /\ Len(SelectSeq(EnterSeq(p), LAMBDA st : st = "RateLimit")) <= 1
            /\ Finished(p) => Occurs("RateLimit", EnterSeq(p)))
    /\ [][\A p \in Procs : (req[p].origin = "" /\ ~PastCORS(p) /\ PastCORS(p)') =>
            /\ w'[p] = w[p]
            /\ req'[p] = req[p]
            /\ pc'[p] = "enter"
            /\ depth'[p] = depth[p] + 1
            /\ handler[depth'[p]] = "RateLimit"]_vars

\* An OPTIONS request without Origin went through the filter to the mux and
\* was answered there.
C21_Witness ==
    /\ req["p1"].method = "OPTIONS" /\ req["p1"].origin = ""
    /\ pc["p1"] = "done"
    /\ EnterSeq("p1") = DeployedOrder
    /\ w["p1"].status = 200

\* The messages of the error responses of handlers and middlewares.
ErrorMessages ==
    {"rate limit exceeded", "internal server error", "method not allowed",
     "invalid JSON body", "url is required", "url must have http or https scheme",
     "invalid url", "failed to create short url", "code is required",
     "short url not found", "failed to resolve url", "failed to get stats",
     "failed to get global stats", "404 page not found", "Method Not Allowed"}

\* C22: uniform error shape.  Every response of the deployed pipeline with a
\* status of 400 or more, from the rate limiter, the Fault Barrier, the handlers
\* or the router, has as its body one JSON object {"error": message, "code": n}
\* with n the status of the response.
C22_UniformErrorShape ==
    \A p \in Procs :
        (Finished(p) /\ w[p].status >= 400) =>
            \E m \in ErrorMessages :
                Join(w[p].body) \in {ErrorJSON(m, w[p].status), ErrorJSON(m, w[p].status) \o "\n"}

\* The request of p was answered by one of the three handlers after it accepted
\* the request's method.
Answered(p) ==
    /\ job[p].at = "replied"
    /\ job[p].h \in {"CreateShortURL", "Redirect", "GetStats"}
    /\ job[p].h = "CreateShortURL" => job[p].method = "POST"

\* The request of p failed validation: an undecodable body, a validation error
\* of Shorten, or an empty code.
ValidationError(p) ==
    \/ job[p].h = "CreateShortURL" /\ ~job[p].json
    \/ job[p].h = "CreateShortURL"
         /\ job[p].err \in {"ErrEmptyURL", "ErrMissingScheme", "ErrInvalidURL"}
    \/ job[p].h \in {"Redirect", "GetStats"} /\ job[p].code = ""

\* The mapping from what the service returned to the status of the response,
\* with Location(url) the header a successful redirect to url carries.
HandlerMapping(Location(_)) ==
    \A p \in Procs : Answered(p) =>
        /\ job[p].err = "ErrNotFound" => w[p].status = 404
        /\ ValidationError(p) => w[p].status = 400
        /\ (job[p].err # "" /\ job[p].err # "ErrNotFound" /\ ~ValidationError(p)) =>
               w[p].status = 500
        /\ (job[p].err = "" /\ ~ValidationError(p)) =>
               /\ job[p].h = "CreateShortURL" => w[p].status = 201
               /\ job[p].h = "GetStats" => w[p].status = 200
               /\ job[p].h = "Redirect" =>
                      /\ w[p].status = 301
                      /\ w[p].sent["Location"] = Location(job[p].out.Original)
                      /\ job[p].out.Original = urls[job[p].out.ID].Original

\* C23 as stated: domain handler error mapping.  For CreateShortURL, Redirect and
\* GetStats a not-found error of the service yields 404, a validation error 400,
\* any other service error 500; success yields 201 for create, 200 for stats, and
\* 301 for redirect with a Location header equal to the stored original URL.
C23_LocationIsStoredURL == HandlerMapping(Join)

\* C23, amended: the same mapping, with the Location header of the redirect equal
\* to the stored original URL in which every non-ASCII byte is percent-encoded
\* (which is the stored URL itself when it is ASCII).
C23_HandlerErrorMapping == HandlerMapping(hexEscapeNonASCII)

C23_Witness ==
    /\ job[Caller].at = "replied" /\ job[Caller].h = "Redirect"
    /\ w[Caller].status = 301 /\ job[Caller].out.Original = URLe
    /\ w[Caller].sent["Location"] = "https://e.test/%c3%a9"

\* The texts that are not a number, or not a number of the kind asked for.
Unparsable ==
    {<<"a", "b", "c">>, <<"1", "x">>, <<"h", "t", "t", "p">>, <<"x">>}

\* The environment is one config.Load must refuse: RATE_LIMIT set to a value <= 0
\* or unparsable, RATE_BURST set to a value < 1 or unparsable (as an integer), or
\* PORT outside 1..65535.
BadEnvironment(e) ==
    \/ e.RATE_LIMIT \in Unparsable \cup {<<"0">>, <<"0", ".", "0">>, <<"-", "0", ".", "5">>, <<"-", "1">>}
    \/ e.RATE_BURST \in Unparsable \cup {<<"0">>, <<"-", "3">>, <<"1", ".", "5">>}
    \/ e.PORT \in {<<"0">>, <<"6", "5", "5", "3", "6">>, <<"-", "1">>}

\* C24: configuration errors are startup-only.  config.Load returns an error
\* whenever RATE_LIMIT is <= 0 or unparsable, RATE_BURST is < 1 or unparsable, or
\* PORT is outside 1..65535; run() then returns without building the limiter or
\* serving a request; so no request is ever served by a limiter with rate <= 0 or
\* burst < 1.
C24_ConfigErrorsAtStartup ==
    /\ (run \in {"loaded", "returned", "serving"} /\ BadEnvironment(env)) => cfg.err # ""
    /\ (run \in {"loaded", "returned", "serving"} /\ cfg.err # "") =>
           /\ run # "serving"
           /\ rate = 0 /\ burst = 0
           /\ \A p \in Procs : pc[p] = "idle"
    /\ \A p \in Procs : pc[p] # "idle" => (run = "serving" /\ rate > 0 /\ burst >= 1)
    /\ run = "serving" => (rate > 0 /\ burst >= 1)

C24_Witness ==
    /\ run = "serving" /\ env.RATE_LIMIT = <<"2", ".", "0">> /\ env.RATE_BURST = <<"+", "2">>
    /\ rate = 2 * TokenScale /\ burst = 2 /\ pc[Caller] = "allow_ret" /\ ~ret[Caller]

\* The calls of op that have returned a result to their caller without error:
\* those that have finished, and the caller's own once it is at its return.
Returned(op) ==
    {done[k] : k \in {m \in 1..Len(done) : done[m].op = op /\ done[m].err = ""}}
        \cup {job[p] : p \in {q \in Procs : job[q].op = op /\ job[q].err = ""
                                             /\ job[q].at \in {"return", "replied"}}}

\* C25: Shorten is idempotent per URL.  A Shorten of a URL that is already stored
\* returns the existing record's code and short URL and creates no record; so
\* sequential Shorten calls with one URL all return the same code, and leave
\* exactly one record for it.
C25_ShortenIdempotent ==
    /\ [](\A u \in URLInputs :
            /\ Cardinality(RowsByOriginal(u)) <= 1
            /\ \A r \in Returned("Shorten") : r.url = u =>
                  /\ RowsByOriginal(u) = {r.out.ID}
                  /\ r.resp.Code = urls[r.out.ID].Code
                  /\ r.resp.ShortURL = BaseURL \o "/" \o urls[r.out.ID].Code
            /\ \A r1, r2 \in Returned("Shorten") :
                  (r1.url = u /\ r2.url = u) => r1.resp = r2.resp)
    /\ [][\A p \in Procs :
            (job[p].op = "Shorten" /\ job[p].at = "getByOriginal"
               /\ RowsByOriginal(job[p].url) # {} /\ job'[p] # job[p]) =>
                  /\ urls' = urls
                  /\ job'[p].at \in {"respond", "return"}
                  /\ job'[p].err = "" => job'[p].out \in {urls[i] : i \in RowsByOriginal(job[p].url)}]_vars

C25_Witness ==
    /\ Len(done) = 2 /\ Len(urls) = 1
    /\ \A k \in 1..2 : done[k].op = "Shorten" /\ done[k].url = URLa /\ done[k].err = ""
    /\ done[1].dbops = 4 /\ done[2].dbops = 1
    /\ done[1].resp = done[2].resp /\ done[1].resp.Code = "b"

\* How many Resolve calls of code have started their goroutine, and the clicks
\* stored for code.
Spawned(code) ==
    Cardinality({k \in 1..Len(done) :
                    done[k].op = "Resolve" /\ done[k].code = code /\ done[k].err = ""})
        + Cardinality({p \in Procs : job[p].op = "Resolve" /\ job[p].code = code
                                      /\ job[p].err = "" /\ job[p].at = "return"})
ClicksOf(code) == SumClicks(SelectSeq(urls, LAMBDA row : row.Code = code))

\* C26: click counting without blocking.  A successful Resolve(code) returns the
\* original URL without waiting for the click update, and the click count of
\* the code is eventually incremented by exactly one for that call, given that
\* the goroutine is scheduled and the store does not fail; a Resolve that fails
\* starts no increment; Shorten, Stats and GlobalStats change no click count.
C26_ClickCounting ==
    /\ [](\A c \in CodeInputs :
            /\ ClicksOf(c) + CopiesIn(c, bg) = Spawned(c)
            /\ BagIn(c, bg) => (c # "" /\ RowsByCode(c) # {}))
    /\ [](\A r \in Returned("Resolve") :
            /\ RowsByCode(r.code) # {}
            /\ \A i \in RowsByCode(r.code) : r.out.Original = urls[i].Original)
    /\ [][\A p \in Procs : job'[p] # job[p] =>
            /\ \A i \in 1..Len(urls) : urls'[i].Clicks = urls[i].Clicks
            /\ \A i \in (Len(urls) + 1)..Len(urls') : urls'[i].Clicks = 0
            /\ bg' # bg => /\ job[p].op = "Resolve" /\ job[p].at = "go" /\ job[p].err = ""
                           /\ job'[p].at = "return"
                           /\ bg' = bg (+) SetToBag({job[p].code})]_vars
    /\ \A c \in CodeInputs : \A n \in 1..MaxCalls : (Spawned(c) >= n) ~> (ClicksOf(c) >= n)

C26_Witness ==
    /\ Len(done) = 2
    /\ \A k \in 1..2 : done[k].op = "Resolve" /\ done[k].code = "b" /\ done[k].err = ""
                        /\ done[k].out.Original = URLa
    /\ CopiesIn("b", bg) = 1 /\ ClicksOf("b") = 1

\* The IncrementClicks calls of code whose UPDATE ran without error.
Incremented(code) ==
    Cardinality({k \in 1..Len(done) :
                    done[k].op = "IncrementClicks" /\ done[k].code = code /\ done[k].err = ""})
        + Cardinality({p \in Procs : job[p].op = "IncrementClicks" /\ job[p].code = code
                                      /\ job[p].err = "" /\ job[p].at = "return"})

\* C27: no lost click updates.  However N concurrent IncrementClicks(code) calls
\* on an existing code interleave, if all return without error the stored click
\* count of the code grows by exactly N and no other record's count changes;
\* IncrementClicks on an unknown code returns ErrNotFound and changes nothing.
C27_NoLostClickUpdates ==
    /\ [](\A i \in 1..Len(urls) : urls[i].Clicks = Incremented(urls[i].Code))
    /\ [][\A p \in Procs :
            (job[p].op = "IncrementClicks" /\ job[p].at = "increment" /\ job'[p] # job[p]
               /\ RowsByCode(job[p].code) = {}) =>
                  /\ urls' = urls
                  /\ job'[p].err \in {"ErrNotFound", "driver"}]_vars

C27_Witness ==
    /\ \A p \in Procs : job[p].op = "IncrementClicks" /\ job[p].code = "c"
                         /\ job[p].at = "return" /\ job[p].err = ""
    /\ Len(urls) = 2 /\ urls[2].Clicks = 2 /\ urls[1].Clicks = 0

\* Every Create so far has returned, and returned without error.
CreatesSucceeded ==
    /\ \A p \in Procs : job[p].op # "Create"
    /\ \A k \in 1..Len(done) : done[k].op = "Create" => done[k].err = ""

\* C28: collision-free codes.  After any sequence of successful sequential Create
\* calls every stored record has code = Encode(id), never the empty text or the
\* placeholder; distinct records have distinct codes; and GetByCode(code) returns
\* the record whose original URL was passed to the Create that returned the code.
C28_CollisionFreeCodes ==
    CreatesSucceeded =>
        /\ \A i \in 1..Len(urls) :
              /\ urls[i].ID = i
              /\ urls[i].Code = Encode(urls[i].ID)
              /\ urls[i].Code \notin {"", placeholder}
        /\ \A i, k \in 1..Len(urls) : urls[i].Code = urls[k].Code => i = k
        /\ \A r \in Returned("Create") :
              /\ r.out.Code = Encode(r.out.ID)
              /\ RowsByCode(r.out.Code) = {r.out.ID}
              /\ urls[r.out.ID].Original = r.url
        /\ \A r \in Returned("GetByCode") :
              /\ r.out.Code = r.code
              /\ r.out.Original = urls[r.out.ID].Original

C28_Witness ==
    /\ CreatesSucceeded
    /\ Len(done) = 2 /\ Len(urls) = 2
    /\ \A k \in 1..2 : done[k].op = "Create" /\ done[k].url = URLa
    /\ done[1].out.Code = "b" /\ done[2].out.Code = "c"

\* The round trip over the first integers.
RoundTripRange == \A n \in 0..MaxID : Decode(EncodeText(n)) = [value |-> n, err |-> ""]

\* C29: base62 round trip.  For every integer n >= 0, Decode(Encode(n)) returns n
\* and no error; Encode(0) = "a"; Encode(n) = "" for every n < 0; Decode returns
\* ErrInvalidInput for the empty text and for a text with a character outside
\* a-z, A-Z, 0-9.
C29_Base62RoundTrip ==
    RoundTripRange /\ \A k \in 1..Len(done) :
        /\ (done[k].op = "Encode" /\ done[k].n = 0) => Join(done[k].code) = "a"
        /\ (done[k].op = "Encode" /\ done[k].n < 0) => Join(done[k].code) = ""
        /\ (done[k].op = "Encode" /\ done[k].n >= 0) =>
              /\ done[k].code # <<>>
              /\ \A m \in 1..Len(done) :
                    (done[m].op = "Decode" /\ done[m].code = done[k].code) =>
                        (done[m].n = done[k].n /\ done[m].err = "")
        /\ (done[k].op = "Decode"
              /\ (done[k].code = <<>>
                    \/ \E i \in 1..Len(done[k].code) :
                          done[k].code[i] \notin Letters \cup DigitChars)) =>
              (done[k].err = "ErrInvalidInput" /\ done[k].n = 0)

C29_Witness ==
    /\ Len(done) = 2
    /\ done[1].op = "Encode" /\ done[1].n = 2147483647
    /\ done[2].op = "Decode" /\ done[2].code = done[1].code /\ done[2].n = 2147483647
    /\ done[2].err = ""

\* Every call of op that has returned to its caller, with or without error.
AllReturned(op) ==
    {done[k] : k \in {m \in 1..Len(done) : done[m].op = op}}
        \cup {job[p] : p \in {q \in Procs : job[q].op = op /\ job[q].at \in {"return", "replied"}}}

\* The texts tried that url.Parse rejects: a missing scheme before ":", a bad
\* percent-escape in path or fragment, a colon in the first segment of a
\* relative path, a space in the host, a port that is not a number, a control
\* character.
Rejected ==
    {<<":", "/", "/", "x">>,   \* ://x
     <<"f", "t", "p", ":", "/", "/", "h", "/", "%", "z", "z">>,   \* ftp://h/%zz
     <<"h", "t", "t", "p", ":", "/", "/", "h", "/", "%", "z", "z">>,   \* http://h/%zz
     <<"1", "a", ":", "b">>,   \* 1a:b
     <<"h", "t", "t", "p", ":", "/", "/", "a", " ", "b">>,   \* http://a b
     <<"h", "t", "t", "p", ":", "/", "/", "h", ":", "x">>,   \* http://h:x
     <<"h", "t", "t", "p", ":", "/", "/", "h", "\n">>,   \* http://h\n
     <<"h", "t", "t", "p", "s", ":", "/", "/", "h", "#", "%", "z", "z">>}   \* https://h#%zz

\* The texts tried that url.Parse accepts with a scheme but without a host.
Hostless ==
    {<<"h", "t", "t", "p", ":", "/", "/">>,   \* http://
     <<"h", "t", "t", "p", ":", "e", ".", "c">>,   \* http:e.c
     <<"h", "t", "t", "p", "s", ":", "/", "/", "/", "p", "a", "t", "h">>}   \* https:///path

\* The scheme a text names: what stands before its first ":" when that is made
\* of letters, digits, "+", "-" and "." and starts with a letter; in lower case.
SchemeOf(u) == ToLower(getScheme(u).scheme)

ValidationErrors == {"ErrEmptyURL", "ErrMissingScheme", "ErrInvalidURL"}

\* The error the claim expects of Shorten(u), the scheme being looked at before
\* the text is known to parse; "" when it expects none of the three.
ExpectedSchemeFirst(u) ==
    IF u = <<>> THEN "ErrEmptyURL"
    ELSE IF SchemeOf(u) \notin {http, https} THEN "ErrMissingScheme"
    ELSE IF u \in Rejected \cup Hostless THEN "ErrInvalidURL"
    ELSE ""

\* The same with the parse error first.
ExpectedParseFirst(u) ==
    IF u = <<>> THEN "ErrEmptyURL"
    ELSE IF u \in Rejected THEN "ErrInvalidURL"
    ELSE IF SchemeOf(u) \notin {http, https} THEN "ErrMissingScheme"
    ELSE IF u \in Hostless THEN "ErrInvalidURL"
    ELSE ""

\* Shorten returns the expected validation error, and only then one of the
\* three; a call that returns one has made no call into the repository.
ShortenValidation(Expected(_)) ==
    \A r \in AllReturned("Shorten") :
        /\ Expected(r.url) # "" => r.err = Expected(r.url)
        /\ Expected(r.url) = "" => r.err \notin ValidationErrors
        /\ r.err \in ValidationErrors => r.dbops = 0

\* The step in which Shorten finds a validation error leaves the table as it was.
NoWriteOnValidationError ==
    [][\A p \in Procs :
        (job[p].op = "Shorten" /\ job'[p] # job[p] /\ job'[p].err \in ValidationErrors) =>
            urls' = urls]_vars

\* C30 as stated: Shorten validation.  Shorten returns ErrEmptyURL for the empty
\* string, ErrMissingScheme for a URL whose scheme is not http or https
\* (case-insensitive), and ErrInvalidURL for an unparsable URL or one with an
\* http(s) scheme but no host, checked in that order; on any of these errors the
\* repository is neither read nor written, so no record is created.
C30_ValidationSchemeFirst ==
    [](ShortenValidation(ExpectedSchemeFirst)) /\ NoWriteOnValidationError

\* C30, amended: Shorten returns ErrEmptyURL for the empty string, ErrInvalidURL
\* for a text url.Parse rejects, ErrMissingScheme for a parsable URL whose scheme
\* is not http or https, and ErrInvalidURL for a parsable URL with an http(s)
\* scheme but no host, checked in that order; on any of these errors the
\* repository is neither read nor written.
C30_ShortenValidation ==
    [](ShortenValidation(ExpectedParseFirst)) /\ NoWriteOnValidationError

C30_Witness ==
    /\ Len(done) = 2 /\ urls = <<>>
    /\ done[1].op = "Shorten" /\ done[1].url = <<"f", "t", "p", ":", "/", "/", "h", "/", "%", "z", "z">>
    /\ done[1].err = "ErrInvalidURL" /\ done[1].dbops = 0
    /\ done[2].op = "Shorten" /\ done[2].url = <<"h", "t", "t", "p", ":", "/", "/">>
    /\ done[2].err = "ErrInvalidURL" /\ done[2].dbops = 0

\* ---------------------------------------------------------------- C31
\* Logged call k emptied the bucket: it was allowed with exactly one token.
Exhausted(k) == log[k].ok /\ log[k].avail = TokenScale

\* The logged calls strictly between k and m were all denied.
DeniedBetween(k, m) == \A j \in (k + 1)..(m - 1) : ~log[j].ok

WriteCalls(p) == SelectSeq(w[p].calls, LAMBDA c : c.op \in {"WriteHeader", "Write"})

\* The byte counts the server's writer reported for the writes that came
\* through at least j logging wrappers, summed.
RECURSIVE ReportedBytes(_, _)
ReportedBytes(calls, j) ==
    IF calls = <<>> THEN 0
    ELSE (IF Head(calls).op = "Write" /\ Head(calls).via >= j THEN Head(calls).n ELSE 0)
         + ReportedBytes(Tail(calls), j)

\* The calls the server's writer received are the writing calls of the stages,
\* one for one, in their order and with their arguments; every wrapper has
\* counted what the writer reported for the writes that came through it.
Forwarded(p) ==
    /\ Len(w[p].real) = Len(WriteCalls(p))
    /\ \A k \in 1..Len(w[p].real) :
           /\ w[p].real[k].by = WriteCalls(p)[k].by
           /\ w[p].real[k].op = WriteCalls(p)[k].op
           /\ w[p].real[k].val = WriteCalls(p)[k].val
           /\ w[p].real[k].code = WriteCalls(p)[k].code
    /\ \A j \in 1..Len(w[p].wraps) :
           w[p].wraps[j].size = ReportedBytes(w[p].real, j)

\* The request line Logging prints carries the bytes its wrapper counted.
LoggedSizeIsReported ==
    [][\A p \in Procs :
          RequestLines(p)' # RequestLines(p) =>
              logged'[p][Len(logged'[p])].size =
                  ReportedBytes(w[p].real, Len(w[p].wraps))]_vars

\* C32: transparent response interception.  Every WriteHeader and Write the
\* stages inside Logging make reaches the server's response writer once, in the
\* same order and with the same arguments, and the size in the request line is
\* the sum of the byte counts that writer reported for those writes, 0 when
\* there was none.
C32_TransparentInterception ==
    /\ [](\A p \in Procs : Forwarded(p))
    /\ LoggedSizeIsReported

\* The mux wrote a body and panicked, Recovery wrote its own after it: both
\* writes went through the wrapper, and the line shows the bytes of both.
C32_Witness ==
    \E p \in Procs :
        /\ pc[p] = "done"
        /\ Len(RequestLines(p)) = 1
        /\ Cardinality({k \in 1..Len(w[p].real) :
                           w[p].real[k].op = "Write" /\ w[p].real[k].via = 1}) = 2
        /\ Len(w[p].body) = 2
        /\ RequestLines(p)[1].size = Len(w[p].body[1]) + Len(w[p].body[2])
        /\ RequestLines(p)[1].size > 0

\* ---------------------------------------------------------------- C33
\* The characters that separate the parts of a connection address.
AddrMarks == {":", "[", "]"}

NoneOf(cs, marks) == \A k \in 1..Len(cs) : cs[k] \notin marks

\* The hosts h for which addr reads h:port or [h]:port.
HostPortForms(addr) ==
    {SubSeq(addr, 1, k - 1) : k \in {j \in 1..Len(addr) :
        /\ addr[j] = ":"
        /\ NoneOf(SubSeq(addr, 1, j - 1), AddrMarks)
        /\ NoneOf(SubSeq(addr, j + 1, Len(addr)), AddrMarks)}}
    \cup
    {SubSeq(addr, 2, k - 2) : k \in {j \in 3..Len(addr) :
        /\ addr[1] = "[" /\ addr[j - 1] = "]" /\ addr[j] = ":"
        /\ NoneOf(SubSeq(addr, 2, j - 2), {"[", "]"})
        /\ NoneOf(SubSeq(addr, j + 1, Len(addr)), AddrMarks)}}

\* The identity the rule gives request r.
ExpectedKey(r) ==
    IF r.xff # <<>> THEN Join(TrimSpace(Cut(r.xff, ",").before))
    ELSE IF r.xri # "" THEN r.xri
    ELSE IF HostPortForms(r.remote) # {}
      THEN Join(CHOOSE h \in HostPortForms(r.remote) : TRUE)
      ELSE Join(r.remote)

\* Connection addresses that have no host:port form, or an unusual one.
OddRemoteAddrs ==
    {<<"a", ":", "b", ":", "8">>, <<"[", "a", ":", "b", "]", ":", "8">>,
     <<"[", "a", "]", "8">>, <<"[", "a", ":", "8">>, <<"a", "]", ":", "8">>,
     <<":", "8">>, <<"a", ":">>, <<"[", "[", "a", "]", ":", "8">>,
     <<"[", "a", "]", ":", "]">>, <<"[", "a", "]", ":", ":", "8">>}

\* The rule agrees with getClientIP on every request of the inputs, also for
\* addresses whose identity is no key of the limiters checked here.
KeyRule ==
    \A xff \in ForwardedFor, xri \in RealIPs, remote \in RemoteAddrs \cup OddRemoteAddrs :
        /\ Cardinality(HostPortForms(remote)) <= 1
        /\ getClientIP(ClientRequest(xff, xri, remote)) =
               ExpectedKey(ClientRequest(xff, xri, remote))

\* Request p is inside the call of Allow its middleware made.
InAllow(p) ==
    pc[p] \in {"allow_lock", "allow_lookup", "allow_create", "allow_refill",
               "allow_cap", "allow_check", "allow_dec", "allow_unlock", "allow_ret"}

\* The requests admitted under key k.
AdmittedAs(k) == {p \in Procs : decision[p] = "allowed" /\ ExpectedKey(req[p]) = k}

\* C33: client identity derivation.  The key Allow is called with is the first
\* comma-separated element of X-Forwarded-For, trimmed, whenever the header is
\* non-empty, also when that element is empty; else X-Real-IP when non-empty;
\* else the host of the connection address, or the whole address when it has no
\* host:port form.  The empty key is a key like any other: one bucket is created
\* for it, and with no time passing the requests admitted under one key, the
\* empty one included, are at most burst.
C33_ClientIdentity ==
    /\ KeyRule
    /\ \A p \in Procs : InAllow(p) => ip[p] = ExpectedKey(req[p])
    /\ \A k \in Keys :
           /\ created[k] <= 1
           /\ Cardinality(AdmittedAs(k)) <= burst
           /\ AdmittedAs(k) # {} => buckets[k].exists

\* Two requests with the empty identity, one from an X-Forwarded-For with an
\* empty first element beside an X-Real-IP, one from an empty connection
\* address, drew on one bucket of one token: one was admitted, one rejected.
C33_Witness ==
    /\ burst = 1
    /\ req["p1"] = ClientRequest(<<",", "a">>, "b", <<"a", ":", "8">>)
    /\ req["p2"] = ClientRequest(<<>>, "", <<>>)
    /\ pc["p1"] = "done" /\ pc["p2"] = "done"
    /\ {decision["p1"], decision["p2"]} = {"allowed", "denied"}
    /\ created[""] = 1
    /\ \A i \in IPs : ~buckets[i].exists

\* ---------------------------------------------------------------- C34
\* A preflight request never is inside Allow and never reaches the limiter.
PreflightOutsideAllow ==
    \A p \in Procs :
        Preflight(req[p]) =>
            /\ ~InAllow(p)
            /\ decision[p] = "none"
            /\ ~Occurs("RateLimit", EnterSeq(p))

\* While preflight requests are all the server has been sent, no bucket exists.
OnlyPreflightsNoBucket ==
    (\A p \in Procs : req[p] = NoRequest \/ Preflight(req[p])) =>
        \A k \in Keys : buckets[k] = NoBucket /\ created[k] = 0

\* Every step that creates a bucket or changes one, its tokens or its lastRefill,
\* is a step of a request inside Allow that is no preflight.
BucketsChangedByOthers ==
    [][(buckets' # buckets \/ created' # created) =>
           \E p \in Procs : mu = p /\ InAllow(p) /\ ~Preflight(req[p])]_vars

\* C34: preflight requests are free of charge.  In the deployed pipeline an
\* OPTIONS request with a non-empty Origin never calls Allow: it creates no
\* bucket and leaves the tokens and lastRefill of every bucket as they are,
\* however many of them are sent.
C34_PreflightFree ==
    /\ [](PreflightOutsideAllow /\ OnlyPreflightsNoBucket)
    /\ BucketsChangedByOthers

\* A client's request was admitted and charged; a preflight from the same
\* address was answered 204, and the bucket holds what the first request left.
C34_Witness ==
    \E p, q \in Procs :
        /\ pc[p] = "done" /\ ~Preflight(req[p]) /\ decision[p] = "allowed"
        /\ pc[q] = "done" /\ Preflight(req[q]) /\ w[q].status = 204
        /\ getClientIP(req[p]) = getClientIP(req[q])
        /\ buckets[getClientIP(req[q])].exists
        /\ buckets[getClientIP(req[q])].tokens = (burst - 1) * TokenScale
        /\ created[getClientIP(req[q])] = 1

\* ---------------------------------------------------------------- C35
\* C35: admission rate bound.  For an identity, among the calls of Allow made in
\* any window of time, from logged call k to logged call m, at most
\* burst + rate * (length of the window) return true, whichever goroutines
\* made them and however they interleaved.
C35_AdmissionRateBound ==
    \A k \in 1..Len(log) : \A m \in k..Len(log) :
        /\ log[k].now <= log[m].now
        /\ Allowed(k, m) * TokenScale <=
               burst * TokenScale + (log[m].now - log[k].now) * rate

\* A window of positive length in which the bound is met exactly, with a denied
\* call among its calls.
C35_Witness ==
    \E k \in 1..Len(log) : \E m \in k..Len(log) :
        /\ log[m].now > log[k].now
        /\ \E j \in k..m : ~log[j].ok
        /\ Allowed(k, m) >= 2
        /\ Allowed(k, m) * TokenScale =
               burst * TokenScale + (log[m].now - log[k].now) * rate

\* ---------------------------------------------------------------- C36
\* A call that found the bucket last stamped at least 1/rate before returns true:
\* lastRefill is the time of the previous call for the identity.
AllowedAfterPause ==
    \A p \in Procs :
        (/\ pc[p] = "allow_unlock"
         /\ bsnap[p].exists
         /\ (now[p] - bsnap[p].lastRefill) * rate >= TokenScale) => ret[p]

\* Goroutine p has been denied, at a time from which the clock can still
\* advance by 1/rate.
DeniedInTime(p) ==
    /\ pc[p] = "allow_ret"
    /\ ~ret[p]
    /\ clock + TokenScale <= MaxClock

\* A call for the identity is being admitted: it found a token and is charged.
BeingAdmitted == \E q \in Procs : pc[q] = "allow_dec"

\* C36: no permanent starvation.  A call of Allow made at least 1/rate after the
\* previous call for the same identity returns true; and when time keeps
\* advancing and the identity keeps calling, a denial is followed by an
\* admission.
C36_NoStarvation ==
    /\ []AllowedAfterPause
    /\ \A p \in Procs : DeniedInTime(p) ~> BeingAdmitted

\* A call found a bucket without a whole token, stamped 1/rate ago by the call
\* before it, and is allowed.
C36_Witness ==
    \E p \in Procs :
        /\ pc[p] = "allow_unlock"
        /\ bsnap[p].exists
        /\ bsnap[p].tokens < TokenScale
        /\ (now[p] - bsnap[p].lastRefill) * rate = TokenScale
        /\ ret[p]

\* ---------------------------------------------------------------- C37
\* The calls of Shorten(original) that have returned.
ShortenReturned(original) ==
    {c \in AllReturned("Shorten") : c.url = original}

\* No call of Shorten(original) is still running.
ShortenQuiet(original) ==
    \A p \in Procs :
        (job[p].op = "Shorten" /\ job[p].url = original) => job[p].at \in {"return", "replied"}

\* C37: at most one record per original URL under concurrency.  In every
\* interleaving of concurrent Shorten calls with one valid URL that was not
\* stored, there is never more than one record of that URL, and once the calls
\* have returned there is exactly one and all calls returned its code.
C37_OneRecordPerURL ==
    /\ Cardinality(RowsByOriginal(URLa)) <= 1
    /\ (ShortenReturned(URLa) # {} /\ ShortenQuiet(URLa)) =>
           /\ Cardinality(RowsByOriginal(URLa)) = 1
           /\ \A c \in ShortenReturned(URLa) :
                  /\ c.err = ""
                  /\ \A i \in RowsByOriginal(URLa) : c.resp.Code = urls[i].Code

\* ---------------------------------------------------------------- C38
\* The calls of Create that returned succeeded, each with the code of its own
\* id, and no two of them with the same code.
CreatesAllSucceed ==
    /\ \A c \in AllReturned("Create") :
           c.err = "" /\ c.out.Code = Encode(c.out.ID) /\ c.out.Code # placeholder
    /\ \A j, k \in 1..Len(done) :
           (j # k /\ done[j].op = "Create" /\ done[k].op = "Create") =>
               done[j].out.Code # done[k].out.Code

\* No GetByCode returned a record that carries the placeholder.
NoPlaceholderRead ==
    \A c \in AllReturned("GetByCode") : c.err = "" => c.out.Code # placeholder

\* With no Create running, no record carries the placeholder.
NoRecordLeftBehind ==
    (\A p \in Procs : job[p].op # "Create") => RowsByCode(placeholder) = {}

\* GlobalStats never counts a record that carries the placeholder.
NoPlaceholderCounted ==
    [][\A p \in Procs :
          (job[p].at = "globalStats" /\ job'[p].at = "return" /\ job'[p].err = "") =>
              RowsByCode(placeholder) = {}]_vars

\* C38: concurrent Create calls do not interfere.  When Create calls interleave
\* statement by statement (insert with the placeholder, read the id, update the
\* code to Encode(id), read back), all succeed with distinct codes, none fails on
\* the UNIQUE constraint of code, no GetByCode or GlobalStats running beside
\* them observes a record with the placeholder code, and a Create that fails
\* leaves no record behind.
C38_CreatesDoNotInterfere ==
    /\ [](CreatesAllSucceed /\ NoPlaceholderRead /\ NoRecordLeftBehind)
    /\ NoPlaceholderCounted

\* ---------------------------------------------------------------- C39
\* Request p carries an Origin that is not on the allow-list.
Foreign(p) == req[p].origin # "" /\ ~InAllowList(cors.AllowedOrigins, req[p].origin)

\* What the filter has done with the foreign requests it handled.
ForeignNotRejected ==
    \A p \in Procs :
        (Foreign(p) /\ PastCORS(p)) =>
            /\ \A h \in CORSHeaderNames : w[p].hdr[h] = "" /\ w[p].sent[h] = ""
            /\ IF req[p].method = "OPTIONS"
                 THEN /\ w[p].status = 204
                      /\ w[p].body = <<>>
                      /\ ~Occurs("RateLimit", EnterSeq(p))
                      /\ ~Occurs("mux", EnterSeq(p))
                      /\ decision[p] = "none"
                      /\ Finished(p) => pc[p] = "done"
                 ELSE /\ \A k \in 1..Len(w[p].calls) : w[p].calls[k].by # "CORS"
                      /\ w[p].status \in {0, 200, 404, 429, 500}
                      /\ Occurs("mux", EnterSeq(p)) => decision[p] = "allowed"
                      /\ decision[p] = "denied" => w[p].status = 429
                      /\ Finished(p) =>
                             /\ Occurs("RateLimit", EnterSeq(p))
                             /\ decision[p] # "none"
                             /\ decision[p] = "allowed" => Occurs("mux", EnterSeq(p))

\* The filter's step on a foreign request that is no OPTIONS hands the request
\* and the response, both as they came, to the rate limiter: the step it takes
\* on a request without Origin.
ForeignPassedOn ==
    [][\A p \in Procs :
          (Foreign(p) /\ req[p].method # "OPTIONS" /\ ~PastCORS(p) /\ PastCORS(p)') =>
              /\ w'[p] = w[p]
              /\ req'[p] = req[p]
              /\ pc'[p] = "enter"
              /\ depth'[p] = depth[p] + 1
              /\ handler[depth'[p]] = "RateLimit"]_vars

\* C39: the CORS filter never rejects.  A request whose Origin is not on the
\* allow-list gets no CORS response header; if its method is not OPTIONS it goes
\* on to the next stage as a request without Origin does, is rate-limited and
\* handled; if its method is OPTIONS it is answered 204 and reaches no further
\* stage.
C39_CORSNeverRejects ==
    /\ []ForeignNotRejected
    /\ ForeignPassedOn

\* A GET from an origin that is not on the list was admitted and answered by
\* the mux, without CORS headers.
C39_Witness ==
    /\ cors.AllowedOrigins = <<"https://app.test">>
    /\ req["p1"].method = "GET" /\ req["p1"].origin = "https://evil.test"
    /\ pc["p1"] = "done"
    /\ decision["p1"] = "allowed"
    /\ w["p1"].status = 200
    /\ \A h \in CORSHeaderNames : w["p1"].sent[h] = ""

====
